---- MODULE Spec2Model ----
(***************************************************************************)
(* Healthy-Cities (Mumbai Pulse): derived metrics, data sanitizer and      *)
(* anomaly-detection engine, modelled from the Python sources.             *)
(*                                                                         *)
(* Numbers.  Python floats are modelled in fixed point.  Unless a          *)
(* definition says otherwise a quantity is an integer count of hundredths  *)
(* (28.5 is 2850, the sentinel -999 is -99900).  A value that a dict or a  *)
(* DataFrame cell can hold is a record [k, v]: k is the kind ("num",       *)
(* "nan", "posinf", "neginf", "text", "date") and v the hundredths of a    *)
(* "num" (0 for the other kinds).                                          *)
(***************************************************************************)
EXTENDS Integers, Sequences, FiniteSets, TLC

VARIABLES
    \* DataProcessor._clean_nasa_data called on its own
    data_dict,        \* the dict handed to _clean_nasa_data
    cleaned_dict,     \* the dict it returned
    clean_called,     \* TRUE once _clean_nasa_data has returned
    \* DataProcessor
    master_file,      \* master_dataset.csv: [exists, readable, rows]
    master_data,      \* self.master_data: [loaded, rows]
    served,           \* the records last handed to a consumer
    last_call,        \* the method that handed them out
    \* the three artifact files.  save_models writes them under
    \* mumbai_pulse_data/models/ and ModelLoader reads the same file names
    \* under mumbai_pulse_data/models/"model 4 anomaly detection"/; the
    \* repository has no step between the two directories, so each file is
    \* held once per directory.  A write truncates the file, then completes it
    store_detector,   \* anomaly_detection_system.pkl, per directory: [exists, complete, obj]
    store_scaler,     \* anomaly_detection_scaler.pkl, per directory
    store_metadata,   \* anomaly_detection_metadata.json, per directory
    store_others,     \* the other files load_all_models reads that are on disk
    \* ModelLoader
    models,           \* self.models
    scalers,          \* self.scalers
    metadata,         \* self.metadata
    label_encoders,   \* self.label_encoders
    request,          \* the data dict handed to detect_anomalies
    decision_value,   \* what the loaded detector's decision_function returns for it
    response,         \* what detect_anomalies returned for it
    called_at,        \* the loader's position when detect_anomalies was called
    data_list,        \* the rows handed to detect_comprehensive_anomalies, each
                      \* with the decision value the detector has for it
    batch_result,     \* what detect_comprehensive_anomalies returned for them
    loader_pc,        \* position inside load_all_models: the file read last
    \* AnomalyDetectionSystem (training run)
    trainer,          \* [pc, run, n_samples, n_features, n_anomalies, raised]
    predictions,      \* per fitted model, its flagged rows: [tp, fp]
    results,          \* the results dict of evaluate_models
    best_model_name,  \* self.best_model_name
    \* the processing scripts: one row of each output table
    aqi_record,       \* [pm25, aqi_estimated, done]
    heat_record,      \* [T2M, RH2M, heat_index_f, heat_index_c, done]
    flood_record,     \* [soil_moisture, precipitation, ndwi, flood_risk_score, done]
    pm25_call,        \* a call of estimate_pm25_from_aod: [aod, humidity, pm25, done]
    aqi_row,          \* one row of mumbai_aqi_estimation.csv and the path writing it
    flood_row,        \* one row of mumbai_flood_risk.csv and the path writing it
    \* AnomalyDetectionSystem, row by row
    inj,              \* [pc, run, n_samples, n_features, raised, generator]
    features_df,      \* self.features_df: rows of cells
    features_with_anomalies,  \* self.features_with_anomalies
    labels,           \* self.labels
    inj_predictions,  \* per fitted model, its flagged rows: [tp, fp]
    stream_memo,      \* what the numpy generator yields from a given state
    fit_memo,         \* what a detector fitted on given data flags
    run_log,          \* per finished run: labels, data, algorithm id, F1
    \* AnomalyDetectionSystem.load_data
    master_df,        \* self.master_df: row count and columns
    feature_cols,     \* self.feature_cols
    filled_df,        \* self.features_df, per kept column its cells
    load_pc,          \* position inside load_data
    \* the backend's heat index functions, one reading
    backend_heat,     \* the reading and what each function returns for it
    \* MumbaiPulseDataProcessor (ml_data_preparation.py)
    datasets,         \* the frames read from the five processed CSV files
    prepared_df,      \* master_df of ml_data_preparation.py: [columns, dtypes, rows]
    prep_label_encoders, \* processor.label_encoders: per column its classes
    prep_feature_names, \* processor.feature_names
    prep_pc           \* position inside main()

sanitizeVars == <<data_dict, cleaned_dict, clean_called>>
dpVars == <<master_file, master_data, served, last_call>>
storeVars == <<store_detector, store_scaler, store_metadata, store_others>>
mlVars == <<models, scalers, metadata, label_encoders, loader_pc>>
callVars == <<request, decision_value, response, called_at>>
trainVars == <<trainer, predictions, results, best_model_name>>
metricVars == <<aqi_record, heat_record, flood_record>>
prepVars == <<datasets, prepared_df, prep_label_encoders, prep_feature_names, prep_pc>>
batchVars == <<data_list, batch_result>>
rowVars == <<pm25_call, aqi_row, flood_row>>
injVars == <<inj, features_df, features_with_anomalies, labels, inj_predictions,
             stream_memo, fit_memo, run_log>>
loadVars == <<master_df, feature_cols, filled_df, load_pc>>
backendVars == <<backend_heat>>

----------------------------------------------------------------------------
(* Values *)

Num(x) == [k |-> "num", v |-> x]
NaN == [k |-> "nan", v |-> 0]
PosInf == [k |-> "posinf", v |-> 0]
NegInf == [k |-> "neginf", v |-> 0]
Text == [k |-> "text", v |-> 0]
\* a str naming category i (1, 2, ...) of a categorical column
Category(i) == [k |-> "text", v |-> i]
Date(d) == [k |-> "date", v |-> d]

\* isinstance(value, (int, float)): NaN and the infinities are floats
IsIntOrFloat(val) == val.k \in {"num", "nan", "posinf", "neginf"}

\* value == c for a number c (hundredths)
ValEq(val, c) == val.k = "num" /\ val.v = c

\* value <= c and value >= c for a number c (hundredths)
ValLe(val, c) == (val.k = "num" /\ val.v <= c) \/ val.k = "neginf"
ValGe(val, c) == (val.k = "num" /\ val.v >= c) \/ val.k = "posinf"
ValGt(val, c) == (val.k = "num" /\ val.v > c) \/ val.k = "posinf"

\* a value not yet computed, and Python's None
NotComputed == [k |-> "pending", v |-> 0]
None == [k |-> "none", v |-> 0]

\* value < c for a number c (hundredths); every comparison with NaN is False
ValLt(val, c) == (val.k = "num" /\ val.v < c) \/ val.k = "neginf"

\* pd.isna(value): NaN only, infinities are not NA
IsNa(val) == val.k = "nan"

----------------------------------------------------------------------------
(* DataProcessor: the table of replacement values, in hundredths *)

replacements ==
    [ T2M |-> 2850, RH2M |-> 7500, heat_index_c |-> 3020, heat_index_f |-> 8640,
      aqi_estimated |-> 4500, pm25_estimated |-> 2200, no2_column_density |-> 35,
      aod_550nm |-> 48, soil_moisture |-> 25, precipitation_mm |-> 120,
      ndwi |-> 18, flood_risk_score |-> 2500, radiance_nw_cm2_sr |-> 2850,
      economic_activity_index |-> 6500, urban_environmental_load |-> 52000,
      environmental_stress_index |-> 1850, air_quality_composite |-> 28,
      water_stress_index |-> 230, WS10M |-> 250, PRECTOTCORR |-> 120,
      T2M_MAX |-> 3200, T2M_MIN |-> 2500 ]

\* the test of _clean_nasa_data: -999, -9999, below -900, or NaN
IsMissingIndicator(value) ==
    ValEq(value, -99900) \/ ValEq(value, -999900) \/ ValLt(value, -90000)
        \/ IsNa(value)

\* one key of the loop of _clean_nasa_data
CleanValue(key, value) ==
    IF IsIntOrFloat(value) /\ IsMissingIndicator(value)
    THEN IF key \in DOMAIN replacements THEN Num(replacements[key]) ELSE Num(0)
    ELSE value

\* _clean_nasa_data(data_dict)
clean_nasa_data(d) == [key \in DOMAIN d |-> CleanValue(key, d[key])]

----------------------------------------------------------------------------
(* Specification SpecSanitize: _clean_nasa_data on an arbitrary dict *)

MaxKeys == 3

\* keys a reading may carry: some in the replacements table, some not
ReadingKeys == <<"T2M", "humidity_percent", "aqi_estimated", "wind_gust">>

\* values a raw reading may hold
RawValues ==
    { Num(-99900), Num(-999900), Num(-90100), Num(-90001), Num(-90000),
      Num(0), Num(2850), NaN, PosInf, NegInf, Text }

KeysUsed == {ReadingKeys[i] : i \in 1..(IF MaxKeys < 4 THEN MaxKeys ELSE 4)}

SanitizeInit ==
    /\ data_dict \in [KeysUsed -> RawValues]
    /\ cleaned_dict = data_dict
    /\ clean_called = FALSE

SanitizeIdle ==
    /\ data_dict = [key \in {"T2M"} |-> Num(2850)]
    /\ cleaned_dict = data_dict
    /\ clean_called = FALSE

\* a caller invokes _clean_nasa_data(data_dict); the dict is updated in place
\* and returned
CleanNasaData ==
    /\ ~clean_called
    /\ cleaned_dict' = clean_nasa_data(data_dict)
    /\ clean_called' = TRUE
    /\ UNCHANGED data_dict

----------------------------------------------------------------------------
(* DataProcessor: master dataset *)

MaxRows == 2
MaxDate == 3
MaxDays == 2

\* columns of master_dataset.csv besides date: one of the table, one not
CsvColumns == {"T2M", "humidity_percent"}

\* cells a numeric CSV column may hold
CsvValues == { Num(-99900), Num(-95000), Num(2850), NaN }

CsvRow(d, t, h) ==
    [c \in {"date", "T2M", "humidity_percent"} |->
        IF c = "date" THEN Date(d) ELSE IF c = "T2M" THEN t ELSE h]

CsvRows == {CsvRow(d, t, h) : d \in 1..MaxDate, t \in CsvValues, h \in CsvValues}

\* a file has at most MaxRows rows, one per date, in any order
DistinctDates(rows) ==
    \A i, j \in 1..Len(rows) : i # j => rows[i]["date"].v # rows[j]["date"].v

CsvFiles ==
    UNION { {rows \in [1..n -> CsvRows] : DistinctDates(rows)} : n \in 0..MaxRows }

\* sort_values('date'): insertion of a row in a date-sorted sequence
RECURSIVE InsertByDate(_, _)
InsertByDate(row, sorted) ==
    IF sorted = <<>> THEN <<row>>
    ELSE IF row["date"].v < Head(sorted)["date"].v THEN <<row>> \o sorted
    ELSE <<Head(sorted)>> \o InsertByDate(row, Tail(sorted))

RECURSIVE sort_values(_)
sort_values(rows) ==
    IF rows = <<>> THEN <<>>
    ELSE InsertByDate(Head(rows), sort_values(Tail(rows)))

\* _clean_master_dataset, first loop: columns of the table only;
\* the mask is  == -999 | == -9999 | < -900
MaskedCell(column, value) ==
    IF column # "date" /\ column \in DOMAIN replacements
       /\ (ValEq(value, -99900) \/ ValEq(value, -999900) \/ ValLt(value, -90000))
    THEN Num(replacements[column])
    ELSE value

\* _clean_master_dataset, second loop: fillna on the numeric columns
FilledCell(column, value) ==
    IF column # "date" /\ IsIntOrFloat(value) /\ IsNa(value)
    THEN IF column \in DOMAIN replacements THEN Num(replacements[column]) ELSE Num(0)
    ELSE value

clean_master_dataset(rows) ==
    [i \in 1..Len(rows) |->
        [c \in DOMAIN rows[i] |-> FilledCell(c, MaskedCell(c, rows[i][c]))]]

\* _create_dummy_data: every numeric column is a normal (or exponential) draw,
\* modelled as mean + z * std with one deviate z in {-1, 0, 1} per row
DummyRow(d, z) ==
    [ date |-> Date(d),
      aqi_estimated |-> Num(5000 + z * 1500), T2M |-> Num(2800 + z * 300),
      RH2M |-> Num(7500 + z * 1000), flood_risk_score |-> Num(3000 + z * 1000),
      heat_index_c |-> Num(3000 + z * 400), pm25_estimated |-> Num(2500 + z * 800),
      no2_column_density |-> Num(40 + z * 10), aod_550nm |-> Num(50 + z * 10),
      soil_moisture |-> Num(30 + z * 10), precipitation_mm |-> Num(200 + z * 200),
      ndwi |-> Num(20 + z * 5), radiance_nw_cm2_sr |-> Num(2500 + z * 500),
      economic_activity_index |-> Num(6000 + z * 1000),
      urban_environmental_load |-> Num(50000 + z * 10000),
      environmental_stress_index |-> Num(2000 + z * 500),
      air_quality_composite |-> Num(30 + z * 10),
      water_stress_index |-> Num(250 + z * 50),
      aqi_category |-> Text, heat_risk_level |-> Text, risk_category |-> Text,
      activity_level |-> Text, is_monsoon_season |-> Num(0) ]

DummyFrames == {[i \in 1..MaxRows |-> DummyRow(i, z[i])] : z \in [1..MaxRows -> {-1, 0, 1}]}

\* load_master_dataset: the frames self.master_data may hold afterwards.
\* A file that exists but makes read_csv, to_datetime, sort_values or
\* _clean_master_dataset raise (an empty or malformed file, no date column,
\* text in a column of the table) ends in the handler, which falls back to
\* the dummy frame as the missing file does
LoadedFrames(file) ==
    IF file.exists /\ file.readable
    THEN {clean_master_dataset(sort_values(file.rows))}
    ELSE DummyFrames

\* _get_default_data
default_data ==
    [ date |-> Text, aqi_estimated |-> Num(4500), T2M |-> Num(2850), RH2M |-> Num(7500),
      flood_risk_score |-> Num(2500), heat_index_c |-> Num(3020),
      heat_index_f |-> Num(8640), pm25_estimated |-> Num(2200),
      no2_column_density |-> Num(35), aod_550nm |-> Num(48), soil_moisture |-> Num(25),
      precipitation_mm |-> Num(120), ndwi |-> Num(18), radiance_nw_cm2_sr |-> Num(2850),
      economic_activity_index |-> Num(6500), urban_environmental_load |-> Num(52000),
      environmental_stress_index |-> Num(1850), air_quality_composite |-> Num(28),
      water_stress_index |-> Num(230), aqi_category |-> Text, heat_risk_level |-> Text,
      risk_category |-> Text, activity_level |-> Text, is_monsoon_season |-> Num(0),
      aqi_color |-> Text, heat_risk_color |-> Text, risk_color |-> Text,
      activity_color |-> Text ]

\* the encoded fields get_latest_data adds when the row lacks them
EncodedDefaults ==
    [ aqi_color |-> Num(0), risk_color |-> Num(100), activity_color |-> Num(100),
      heat_risk_color |-> Num(0), data_source_flood |-> Num(0),
      data_source_urban |-> Num(0) ]

\* the last row handed out as it is stored
latest_data_Uncleaned(md) ==
    IF md.loaded /\ Len(md.rows) > 0
    THEN md.rows[Len(md.rows)] @@ EncodedDefaults
    ELSE default_data

\* get_latest_data(): the record it returns
latest_data(md) ==
    IF md.loaded /\ Len(md.rows) > 0
    THEN clean_nasa_data(md.rows[Len(md.rows)]) @@ EncodedDefaults
    ELSE default_data

\* max of the date column (0 stands for NaT of an empty frame)
RECURSIVE MaxDateOf(_)
MaxDateOf(rows) ==
    IF rows = <<>> THEN 0
    ELSE LET m == MaxDateOf(Tail(rows))
         IN IF Head(rows)["date"].v > m THEN Head(rows)["date"].v ELSE m

\* the rows with start_date <= date <= end_date, in frame order
RECURSIVE FilterDates(_, _, _)
FilterDates(rows, start_date, end_date) ==
    IF rows = <<>> THEN <<>>
    ELSE IF Head(rows)["date"].v >= start_date /\ Head(rows)["date"].v <= end_date
         THEN <<Head(rows)>> \o FilterDates(Tail(rows), start_date, end_date)
         ELSE FilterDates(Tail(rows), start_date, end_date)

\* get_recent_data(days): row.to_dict() of every row of the window, uncleaned;
\* without a frame the attribute access raises and the default record is returned
recent_data(md, days) ==
    IF ~md.loaded THEN <<default_data>>
    ELSE IF md.rows = <<>> THEN <<>>
    ELSE LET end_date == MaxDateOf(md.rows)
         IN FilterDates(md.rows, end_date - days, end_date)

DpInit ==
    /\ master_file \in {[exists |-> TRUE, readable |-> TRUE, rows |-> r] : r \in CsvFiles}
                        \cup {[exists |-> TRUE, readable |-> FALSE, rows |-> <<>>],
                              [exists |-> FALSE, readable |-> FALSE, rows |-> <<>>]}
    /\ \E frame \in LoadedFrames(master_file) :
          master_data = [loaded |-> TRUE, rows |-> frame]
    /\ served = <<>>
    /\ last_call = "init"

DpIdle ==
    /\ master_file = [exists |-> FALSE, readable |-> FALSE, rows |-> <<>>]
    /\ master_data = [loaded |-> FALSE, rows |-> <<>>]
    /\ served = <<>>
    /\ last_call = "idle"

\* refresh_data(): load_master_dataset again
RefreshData ==
    /\ \E frame \in LoadedFrames(master_file) :
          master_data' = [loaded |-> TRUE, rows |-> frame]
    /\ served' = <<>>
    /\ last_call' = "refresh_data"
    /\ UNCHANGED master_file

GetLatestData ==
    /\ served' = <<latest_data(master_data)>>
    /\ last_call' = "get_latest_data"
    /\ UNCHANGED <<master_file, master_data>>

GetRecentData ==
    /\ \E days \in 0..MaxDays : served' = recent_data(master_data, days)
    /\ last_call' = "get_recent_data"
    /\ UNCHANGED <<master_file, master_data>>

----------------------------------------------------------------------------
(* ModelLoader: the anomaly-detection artifact and inference *)

MaxFeatures == 2
MaxRun == 3

\* the three algorithm ids, in the order train_models stores them
Algorithms == <<"isolation_forest", "one_class_svm", "dbscan">>

\* names a feature column may have; the last never is a feature
ColumnNames == <<"T2M", "aqi_color", "aqi_estimated", "flood_risk_score", "humidity_percent">>

\* the feature schema a training run of n features persists
SchemaOf(n) == [i \in 1..n |-> ColumnNames[i]]

Range(f) == {f[i] : i \in DOMAIN f}

EmptyDict == [x \in {} |-> 0]

\* the three objects _load_anomaly_detection_model reads, as training run
\* `run` with algorithm `alg` and n features wrote them
DetectorOf(run, alg) == [algorithm |-> alg, run |-> run]
ScalerOf(run, n) == [n_features_in |-> n, run |-> run]
\* (run stands for training_samples and trained_timestamp; anomaly_threshold
\* is held in percent)
MetadataOf(run, alg, n) ==
    [ model_type |-> "anomaly_detection_system", best_algorithm |-> alg,
      features |-> SchemaOf(n), anomaly_threshold |-> 10, run |-> run,
      model_description |-> Range(Algorithms) ]

\* np.zeros(n)
zeros(n) == [i \in 1..n |-> Num(0)]

\* data.get(feature, 0)
DictGet(data, feature) == IF feature \in DOMAIN data THEN data[feature] ELSE Num(0)

\* a lookup that stores the default it returns: data.setdefault(feature, 0)
RECURSIVE DataAfterGet_SetDefault(_, _)
DataAfterGet_SetDefault(data, feature_names) ==
    IF feature_names = <<>> THEN data
    ELSE LET rest == DataAfterGet_SetDefault(data, Tail(feature_names))
         IN [k \in DOMAIN rest \cup {Head(feature_names)} |->
                IF k \in DOMAIN rest THEN rest[k] ELSE Num(0)]

\* the caller's dict after the data.get(feature, 0) of every feature name:
\* get reads and stores nothing
DataAfterGet(data, feature_names) == data

\* the caller's dict after _prepare_features(data, 'anomaly_detection')
AfterPrepare(meta, data) ==
    IF "anomaly_detection" \notin DOMAIN meta THEN data
    ELSE DataAfterGet(data, meta["anomaly_detection"].features)

\* the label-encoder branch of _prepare_features: a known category becomes
\* its index, anything else 0
Encoded(encoders, feature, value) ==
    IF feature \in DOMAIN encoders
    THEN IF value.k = "text" /\ value.v \in encoders[feature]
         THEN Num(100 * (value.v - 1))
         ELSE Num(0)
    ELSE value

\* float(value) raises for a str or a Timestamp
FloatRaises(value) == value.k \in {"text", "date"}

\* _prepare_features(data, 'anomaly_detection')
prepare_features(meta, encoders, data) ==
    IF "anomaly_detection" \notin DOMAIN meta THEN zeros(50)
    ELSE LET feature_names == meta["anomaly_detection"].features
             values == [i \in 1..Len(feature_names) |->
                          Encoded(encoders, feature_names[i], DictGet(data, feature_names[i]))]
         IN IF feature_names = <<>> THEN zeros(50)
            ELSE IF \E i \in 1..Len(values) : FloatRaises(values[i]) THEN zeros(53)
            ELSE values

\* StandardScaler.transform and the detector's predict raise ValueError for
\* a vector of another length than fitted, or one holding NaN or infinity
TransformRaises(scaler, features) ==
    \/ Len(features) # scaler.n_features_in
    \/ \E i \in 1..Len(features) : features[i].k # "num"

\* decision_function values (hundredths) a fitted detector may return
DecisionValues == {-71, -70, -31, -30, 0, 30, 31, 70, 71}

\* predict of the detector from its decision value: IsolationForest marks
\* decision < 0, OneClassSVM marks decision <= 0
Predict(algorithm, decision) ==
    IF algorithm = "isolation_forest"
    THEN IF decision < 0 THEN -1 ELSE 1
    ELSE IF decision > 0 THEN 1 ELSE -1

\* IsolationForest and OneClassSVM have a decision_function, DBSCAN has none
HasDecisionFunction(algorithm) == algorithm \in {"isolation_forest", "one_class_svm"}

\* what the fitted detector makes of the row.  For dbscan the decision value
\* stands for the row's margin to the clusters found in training: below 0 the
\* row lies in no cluster, the label -1 that train_models counts as anomaly
IsOutlier(algorithm, decision) ==
    IF algorithm = "dbscan" THEN decision < 0
    ELSE Predict(algorithm, decision) = -1

Abs(x) == IF x < 0 THEN -x ELSE x

\* the severity expression with its bounds included in the upper bucket
Severity_AtLeast(score) ==
    IF score >= 70 THEN "High" ELSE IF score >= 30 THEN "Medium" ELSE "Low"

\* the severity expression of detect_anomalies (score in hundredths)
Severity(score) == IF score > 70 THEN "High" ELSE IF score > 30 THEN "Medium" ELSE "Low"

\* the dict of the except branch of detect_anomalies
FallbackResult ==
    [ path |-> "except", is_anomaly |-> FALSE, anomaly_score |-> 0, severity |-> "Low",
      scored |-> <<>>, raised |-> "none" ]

\* detect_anomalies(data) with the detector returning `decision`
detect_anomalies(mods, scals, meta, encoders, data, decision) ==
    LET features == prepare_features(meta, encoders, data)
    IN IF "anomaly_scaler" \notin DOMAIN scals THEN FallbackResult
       ELSE IF TransformRaises(scals["anomaly_scaler"], features) THEN FallbackResult
       ELSE IF "anomaly_detector" \notin DOMAIN mods THEN FallbackResult
       ELSE IF mods["anomaly_detector"].algorithm = "dbscan" THEN FallbackResult
       ELSE [ path |-> "try",
              is_anomaly |-> (Predict(mods["anomaly_detector"].algorithm, decision) = -1),
              anomaly_score |-> Abs(decision),
              severity |-> Severity(Abs(decision)),
              scored |-> features,
              raised |-> "none" ]


NoFile == [exists |-> FALSE, complete |-> FALSE, obj |-> EmptyDict]
File(obj) == [exists |-> TRUE, complete |-> TRUE, obj |-> obj]

\* a file after open(path, 'w') or in the middle of joblib.dump: it exists,
\* its content is not yet all there
TruncatedFile == [exists |-> TRUE, complete |-> FALSE, obj |-> EmptyDict]

\* label_encoders.pkl: the encoders of the categorical feature columns,
\* each with its classes_ (category ids)
EncoderFile == [c \in {"aqi_color"} |-> {1, 2}]

NoResponse ==
    [ path |-> "none", is_anomaly |-> FALSE, anomaly_score |-> 0, severity |-> "Low",
      scored |-> <<>>, raised |-> "none" ]

\* AnomalyDetectionSystem.__init__: self.model_dir, where save_models writes
model_dir == "models"

\* _load_anomaly_detection_model: model_path, where the loader reads
model_path == "models/model 4 anomaly detection"

ModelDirs == {model_dir, model_path}

\* the files load_all_models reads, in reading order, each with the dict
\* and the key it is assigned to
ReadSteps ==
    << [file |-> "environmental_health_predictor.pkl", dict |-> "models",
        key |-> "environmental_health"],
       [file |-> "environmental_health_predictor_metadata.json", dict |-> "metadata",
        key |-> "environmental_health"],
       [file |-> "multi_output_risk_classifier.pkl", dict |-> "models",
        key |-> "risk_classifier"],
       [file |-> "multi_output_risk_classifier_metadata.json", dict |-> "metadata",
        key |-> "risk_classifier"],
       [file |-> "time_series_aqi_estimated.pkl", dict |-> "models",
        key |-> "aqi_forecaster"],
       [file |-> "time_series_flood_risk_score.pkl", dict |-> "models",
        key |-> "flood_forecaster"],
       [file |-> "time_series_forecaster_metadata.json", dict |-> "metadata",
        key |-> "time_series"],
       [file |-> "anomaly_detection_system.pkl", dict |-> "models",
        key |-> "anomaly_detector"],
       [file |-> "anomaly_detection_scaler.pkl", dict |-> "scalers",
        key |-> "anomaly_scaler"],
       [file |-> "anomaly_detection_metadata.json", dict |-> "metadata",
        key |-> "anomaly_detection"],
       [file |-> "urban_environmental_impact_analysis.json", dict |-> "metadata",
        key |-> "urban_impact"],
       [file |-> "feature_scaler.pkl", dict |-> "scalers", key |-> "feature_scaler"],
       [file |-> "label_encoders.pkl", dict |-> "label_encoders", key |-> "none"],
       [file |-> "metadata.json", dict |-> "metadata", key |-> "preprocessing"] >>

AnomalyFiles ==
    {"anomaly_detection_system.pkl", "anomaly_detection_scaler.pkl",
     "anomaly_detection_metadata.json"}

OtherFiles == {ReadSteps[i].file : i \in DOMAIN ReadSteps} \ AnomalyFiles

\* what a file other than the three of model 4 holds
OtherObject(step) ==
    IF step.dict = "label_encoders" THEN EncoderFile ELSE [file |-> step.file]

\* the file a read step opens, as it is on disk
FileOnDisk(step) ==
    IF step.file = "anomaly_detection_system.pkl" THEN store_detector[model_path]
    ELSE IF step.file = "anomaly_detection_scaler.pkl" THEN store_scaler[model_path]
    ELSE IF step.file = "anomaly_detection_metadata.json" THEN store_metadata[model_path]
    ELSE IF step.file \in store_others THEN File(OtherObject(step))
    ELSE NoFile

\* open() finds the file, and pickle.load / json.load finds all of it;
\* FileNotFoundError, EOFError or a decode error otherwise
Readable(file) == file.exists /\ file.complete

\* d[k] = v
Put(d, k, v) == [x \in DOMAIN d \cup {k} |-> IF x = k THEN v ELSE d[x]]

\* the loader's dicts after the assignment of one read step; after the
\* urban impact analysis models['urban_impact'] is set up as a dict (the
\* glob of per-feature models is taken to find none)
Assigned(st, step, obj) ==
    IF step.dict = "models" THEN [st EXCEPT !.models = Put(@, step.key, obj)]
    ELSE IF step.dict = "scalers" THEN [st EXCEPT !.scalers = Put(@, step.key, obj)]
    ELSE IF step.dict = "label_encoders" THEN [st EXCEPT !.label_encoders = obj]
    ELSE IF step.key = "urban_impact"
         THEN [st EXCEPT !.metadata = Put(@, step.key, obj),
                         !.models = Put(@, "urban_impact", EmptyDict)]
    ELSE [st EXCEPT !.metadata = Put(@, step.key, obj)]

\* the reads of load_all_models from step i on: the first file that cannot
\* be read ends them with its exception, what was assigned before stays
RECURSIVE ReadFiles(_, _)
ReadFiles(i, st) ==
    IF i > Len(ReadSteps) THEN [st EXCEPT !.pc = "done"]
    ELSE IF ~Readable(FileOnDisk(ReadSteps[i])) THEN [st EXCEPT !.pc = "failed"]
    ELSE ReadFiles(i + 1, Assigned(st, ReadSteps[i], FileOnDisk(ReadSteps[i]).obj))

\* the loader's dicts as one record
LoaderState ==
    [models |-> models, scalers |-> scalers, metadata |-> metadata,
     label_encoders |-> label_encoders, pc |-> loader_pc]

\* the other files: all there, or one missing: the first file read, the
\* first read after model 4, or the label encoders
OtherFileSets ==
    {OtherFiles} \cup {OtherFiles \ {f} : f \in {"environmental_health_predictor.pkl",
                                                 "urban_environmental_impact_analysis.json",
                                                 "label_encoders.pkl"}}

\* the three files of model 4 in both directories
NoArtifact == [d \in ModelDirs |-> NoFile]
ArtifactIn(dirs, obj) == [d \in ModelDirs |-> IF d \in dirs THEN File(obj) ELSE NoFile]

\* nothing has been trained or deployed; or self.model_dir holds the
\* artifact of an earlier run and the loader's directory, which no script
\* writes and test_integration.py requires to be filled, holds the same
\* artifact, or that artifact without its scaler file
StoreInitOf(other_file_sets) ==
    /\ store_others \in other_file_sets
    /\ \/ /\ store_detector = NoArtifact
          /\ store_scaler = NoArtifact
          /\ store_metadata = NoArtifact
       \/ \E alg \in Range(Algorithms), n \in 1..MaxFeatures :
          /\ store_detector = ArtifactIn(ModelDirs, DetectorOf(1, alg))
          /\ store_scaler = ArtifactIn(ModelDirs, ScalerOf(1, n))
          /\ store_metadata = ArtifactIn(ModelDirs, MetadataOf(1, alg, n))
       \/ \E alg \in Range(Algorithms), n \in 1..MaxFeatures :
          /\ store_others = OtherFiles
          /\ store_detector = ArtifactIn(ModelDirs, DetectorOf(1, alg))
          /\ store_scaler = ArtifactIn({model_dir}, ScalerOf(1, n))
          /\ store_metadata = ArtifactIn(ModelDirs, MetadataOf(1, alg, n))

StoreInit == StoreInitOf(OtherFileSets)

StoreIdle ==
    /\ store_detector = NoArtifact
    /\ store_scaler = NoArtifact
    /\ store_metadata = NoArtifact
    /\ store_others = {}

\* ModelLoader.__init__
MlInit ==
    /\ models = EmptyDict
    /\ scalers = EmptyDict
    /\ metadata = EmptyDict
    /\ label_encoders = EmptyDict
    /\ loader_pc = "start"

\* keys and values of a data dict handed to detect_anomalies
RequestKeys == Range(SchemaOf(MaxFeatures)) \cup {"humidity_percent"}
RequestValues == {Num(2850), NaN, Category(1), Text}
Requests == UNION {[ks -> RequestValues] : ks \in SUBSET RequestKeys}

\* a caller holds a data dict; the fitted detector is a function of the
\* scaled row, so its decision value for this dict is fixed
CallInit ==
    /\ request \in Requests
    /\ decision_value \in DecisionValues
    /\ response = NoResponse
    /\ called_at = "never"

CallIdle ==
    /\ request = EmptyDict
    /\ decision_value = 0
    /\ response = NoResponse
    /\ called_at = "never"

TrainerIdle ==
    /\ trainer = [pc |-> "idle", run |-> 1, n_samples |-> 0, n_features |-> 0,
                  n_anomalies |-> 0, raised |-> "none"]
    /\ predictions = EmptyDict
    /\ results = EmptyDict
    /\ best_model_name = "none"

\* load_all_models with no writer at work, every file readable: the six
\* loaders read their files one after the other
LoadAllModels ==
    /\ loader_pc = "start"
    /\ LET st == ReadFiles(1, LoaderState)
       IN /\ st.pc = "done"
          /\ models' = st.models
          /\ scalers' = st.scalers
          /\ metadata' = st.metadata
          /\ label_encoders' = st.label_encoders
          /\ loader_pc' = st.pc
    /\ UNCHANGED <<storeVars, callVars>>

\* load_all_models when a file cannot be read: the exception is logged and
\* raised again, what the earlier reads assigned stays assigned
LoadAllModelsFails ==
    /\ loader_pc = "start"
    /\ LET st == ReadFiles(1, LoaderState)
       IN /\ st.pc = "failed"
          /\ models' = st.models
          /\ scalers' = st.scalers
          /\ metadata' = st.metadata
          /\ label_encoders' = st.label_encoders
          /\ loader_pc' = st.pc
    /\ UNCHANGED <<storeVars, callVars>>

DetectAnomalies ==
    /\ response' = detect_anomalies(models, scalers, metadata, label_encoders,
                                    request, decision_value)
    /\ called_at' = loader_pc
    /\ request' = AfterPrepare(metadata, request)
    /\ UNCHANGED <<decision_value, mlVars, storeVars>>

----------------------------------------------------------------------------
(* ModelLoader.detect_comprehensive_anomalies *)

MaxBatch == 2

RECURSIVE SumOf(_)
SumOf(seq) == IF seq = <<>> THEN 0 ELSE Head(seq) + SumOf(Tail(seq))

\* float(np.mean(overall_scores)) if overall_scores else 0.0, as the ratio
\* of the sum (hundredths) to the count
overall_score(scores) ==
    IF scores = <<>> THEN [num |-> 0, den |-> 1]
    ELSE [num |-> SumOf(scores), den |-> Len(scores)]

\* the severity expression over np.mean(overall_scores): the mean of an
\* empty list is NaN, and both comparisons with NaN are False
batch_severity(scores) ==
    IF scores = <<>> THEN "Low"
    ELSE IF SumOf(scores) > 70 * Len(scores) THEN "High"
    ELSE IF SumOf(scores) > 30 * Len(scores) THEN "Medium"
    ELSE "Low"

\* the parameters named for a row that was flagged
AffectedOf(data) == {"aqi_estimated", "flood_risk_score", "T2M", "RH2M"} \cap DOMAIN data

\* detect_comprehensive_anomalies(data_list)
detect_comprehensive_anomalies(mods, scals, meta, encoders, rows) ==
    LET anomalies == [i \in 1..Len(rows) |->
                         detect_anomalies(mods, scals, meta, encoders,
                                          rows[i].data, rows[i].decision)]
        overall_scores == [i \in 1..Len(rows) |-> anomalies[i].anomaly_score]
    IN [ n_anomalies |-> Cardinality({i \in 1..Len(rows) : anomalies[i].is_anomaly}),
         anomalies |-> anomalies,
         overall_score |-> overall_score(overall_scores),
         affected_parameters |->
             UNION {AffectedOf(rows[i].data) : i \in {j \in 1..Len(rows) : anomalies[j].is_anomaly}},
         severity |-> batch_severity(overall_scores),
         returned |-> TRUE ]

NoBatchResult ==
    [ n_anomalies |-> 0, anomalies |-> <<>>, overall_score |-> [num |-> 0, den |-> 1],
      affected_parameters |-> {}, severity |-> "Low", returned |-> FALSE ]

\* the rows of a batch: a complete reading or one with a NaN in it
BatchData == {[T2M |-> Num(2850)], [T2M |-> NaN]}
BatchRows == [data : BatchData, decision : DecisionValues]
Batches == UNION {[1..n -> BatchRows] : n \in 0..MaxBatch}

BatchInit ==
    /\ data_list \in Batches
    /\ batch_result = NoBatchResult

BatchIdle ==
    /\ data_list = <<>>
    /\ batch_result = NoBatchResult

DetectComprehensiveAnomalies ==
    /\ batch_result' = detect_comprehensive_anomalies(models, scalers, metadata,
                                                      label_encoders, data_list)
    /\ data_list' = [i \in DOMAIN data_list |->
                        [data_list[i] EXCEPT !.data = AfterPrepare(metadata, @)]]
    /\ UNCHANGED <<mlVars, storeVars, callVars>>

----------------------------------------------------------------------------
(* AnomalyDetectionSystem: the training pipeline of main() *)

MaxSamples == 20
MaxFalsePos == 3

\* a ratio num/den of two counts (den > 0), as the sklearn metrics compute it
Ratio(num, den) == [num |-> num, den |-> den]
RatioLess(a, b) == a.num * b.den < b.num * a.den
RatioEq(a, b) == a.num * b.den = b.num * a.den

\* a metric with zero_division=0
SafeRatio(num, den) == IF den = 0 THEN Ratio(0, 1) ELSE Ratio(num, den)

\* the entry evaluate_models stores for one model, from its predictions
\* against the labels: tp flagged anomalies, fp flagged normal rows
ModelMetrics(pred, n_samples, n_anomalies) ==
    LET tp == pred.tp
        fp == pred.fp
        fn == n_anomalies - pred.tp
        tn == n_samples - n_anomalies - pred.fp
    IN [ accuracy |-> Ratio(tp + tn, n_samples),
         precision |-> SafeRatio(tp, tp + fp),
         recall |-> SafeRatio(tp, tp + fn),
         f1_score |-> SafeRatio(2 * tp, 2 * tp + fp + fn),
         detected_anomalies |-> tp + fp,
         detection_rate |-> Ratio(tp + fp, n_samples) ]

\* a scan that lets a later key win a tie (>= instead of >)
RECURSIVE MaxByF1_LastWins(_, _, _)
MaxByF1_LastWins(keys, res, best) ==
    IF keys = <<>> THEN best
    ELSE IF ~RatioLess(res[Head(keys)].f1_score, res[best].f1_score)
         THEN MaxByF1_LastWins(Tail(keys), res, Head(keys))
         ELSE MaxByF1_LastWins(Tail(keys), res, best)

\* max(keys, key=lambda x: res[x]['f1_score']): the scan keeps the first
\* key until a later one is strictly greater
RECURSIVE MaxByF1(_, _, _)
MaxByF1(keys, res, best) ==
    IF keys = <<>> THEN best
    ELSE IF RatioLess(res[best].f1_score, res[Head(keys)].f1_score)
         THEN MaxByF1(Tail(keys), res, Head(keys))
         ELSE MaxByF1(Tail(keys), res, best)

\* the best_model_name evaluate_models selects; keys in insertion order
select_best(keys, res) == MaxByF1(Tail(keys), res, Head(keys))

\* the keys of self.models, in the order train_models inserted them
RECURSIVE KeysInOrder(_, _)
KeysInOrder(order, dict) ==
    IF order = <<>> THEN <<>>
    ELSE IF Head(order) \in DOMAIN dict
         THEN <<Head(order)>> \o KeysInOrder(Tail(order), dict)
         ELSE KeysInOrder(Tail(order), dict)

\* AnomalyDetectionSystem.__init__ and the start of main()
TrainInit ==
    /\ trainer = [pc |-> "start", run |-> 1, n_samples |-> 0, n_features |-> 0,
                  n_anomalies |-> 0, raised |-> "none"]
    /\ predictions = EmptyDict
    /\ results = EmptyDict
    /\ best_model_name = "none"

\* load_data: master_dataset.csv with n rows and f feature columns
LoadData ==
    /\ trainer.pc = "start"
    /\ \E n \in 1..MaxSamples, f \in 1..MaxFeatures :
          trainer' = [trainer EXCEPT !.pc = "loaded", !.n_samples = n, !.n_features = f]
    /\ UNCHANGED <<predictions, results, best_model_name, storeVars>>

\* load_data: FileNotFoundError, main returns False
LoadDataFails ==
    /\ trainer.pc = "start"
    /\ trainer' = [trainer EXCEPT !.pc = "load_failed"]
    /\ UNCHANGED <<predictions, results, best_model_name, storeVars>>

\* create_synthetic_anomalies: int(n_samples * 0.1) rows are labelled 1;
\* with a single feature column np.random.randint(1, min(4, 1)) raises
\* for the first selected row
CreateSyntheticAnomalies ==
    /\ trainer.pc = "loaded"
    /\ LET n_anomalies == trainer.n_samples \div 10
       IN IF n_anomalies > 0 /\ trainer.n_features = 1
          THEN trainer' = [trainer EXCEPT !.pc = "crashed", !.raised = "ValueError"]
          ELSE trainer' = [trainer EXCEPT !.pc = "injected", !.n_anomalies = n_anomalies]
    /\ UNCHANGED <<predictions, results, best_model_name, storeVars>>

\* what a fitted model flags: tp of the labelled rows, fp of the others
Flagged(n_samples, n_anomalies) ==
    [ tp : 0..n_anomalies,
      fp : 0..(IF n_samples - n_anomalies < MaxFalsePos
               THEN n_samples - n_anomalies ELSE MaxFalsePos) ]

\* train_models: the three models are fitted and stored in self.models
TrainModels ==
    /\ trainer.pc = "injected"
    /\ predictions' \in [Range(Algorithms) -> Flagged(trainer.n_samples, trainer.n_anomalies)]
    /\ trainer' = [trainer EXCEPT !.pc = "trained"]
    /\ UNCHANGED <<results, best_model_name, storeVars>>

\* a train_models that swallows the exception of the last fit and returns
TrainModelsFitFails_Swallowed ==
    /\ trainer.pc = "injected"
    /\ predictions' \in [{Algorithms[i] : i \in 1..(Len(Algorithms) - 1)}
                            -> Flagged(trainer.n_samples, trainer.n_anomalies)]
    /\ trainer' = [trainer EXCEPT !.pc = "trained"]
    /\ UNCHANGED <<results, best_model_name, storeVars>>

\* train_models when the fit of detector k raises: train_models has no
\* handler and main has none, so the run ends with the estimator's
\* exception; the detectors fitted before it are in self.models
TrainModelsFitFails ==
    /\ trainer.pc = "injected"
    /\ \E k \in 1..Len(Algorithms) :
          predictions' \in [{Algorithms[i] : i \in 1..(k - 1)}
                               -> Flagged(trainer.n_samples, trainer.n_anomalies)]
    /\ trainer' = [trainer EXCEPT !.pc = "fit_failed", !.raised = "ValueError"]
    /\ UNCHANGED <<results, best_model_name, storeVars>>

\* evaluate_models
EvaluateModels ==
    /\ trainer.pc = "trained"
    /\ LET res == [m \in DOMAIN predictions |->
                      ModelMetrics(predictions[m], trainer.n_samples, trainer.n_anomalies)]
       IN /\ results' = res
          /\ best_model_name' = select_best(KeysInOrder(Algorithms, predictions), res)
    /\ trainer' = [trainer EXCEPT !.pc = "evaluated"]
    /\ UNCHANGED <<predictions, storeVars>>

\* detect_environmental_anomalies: a report, no state of the system changes
DetectEnvironmentalAnomalies ==
    /\ trainer.pc = "evaluated"
    /\ trainer' = [trainer EXCEPT !.pc = "analyzed"]
    /\ UNCHANGED <<predictions, results, best_model_name, storeVars>>

\* save_models with no reader at work: the three files of self.model_dir
SaveModels ==
    /\ trainer.pc = "analyzed"
    /\ store_detector' = [store_detector EXCEPT
                             ![model_dir] = File(DetectorOf(trainer.run, best_model_name))]
    /\ store_scaler' = [store_scaler EXCEPT
                           ![model_dir] = File(ScalerOf(trainer.run, trainer.n_features))]
    /\ store_metadata' = [store_metadata EXCEPT
                             ![model_dir] = File(MetadataOf(trainer.run, best_model_name,
                                                            trainer.n_features))]
    /\ trainer' = [trainer EXCEPT !.pc = "done"]
    /\ UNCHANGED <<predictions, results, best_model_name, store_others>>

----------------------------------------------------------------------------
(* Publication of a retrained artifact: save_models against the loader *)

\* a training run that has evaluated its models and is about to save them
PublisherInit ==
    /\ \E alg \in Range(Algorithms), n \in 1..MaxFeatures :
          /\ trainer = [pc |-> "analyzed", run |-> 2, n_samples |-> 0, n_features |-> n,
                        n_anomalies |-> 0, raised |-> "none"]
          /\ best_model_name = alg
    /\ predictions = EmptyDict
    /\ results = EmptyDict

\* save_models: joblib.dump(self.best_model, model_path) opens the file
TruncateBestModel ==
    /\ trainer.pc = "analyzed"
    /\ store_detector' = [store_detector EXCEPT ![model_dir] = TruncatedFile]
    /\ trainer' = [trainer EXCEPT !.pc = "model_open"]
    /\ UNCHANGED <<store_scaler, store_metadata, store_others, predictions, results,
                   best_model_name>>

\* save_models: joblib.dump(self.best_model, model_path) has written it
SaveBestModel ==
    /\ trainer.pc = "model_open"
    /\ store_detector' = [store_detector EXCEPT
                             ![model_dir] = File(DetectorOf(trainer.run, best_model_name))]
    /\ trainer' = [trainer EXCEPT !.pc = "model_saved"]
    /\ UNCHANGED <<store_scaler, store_metadata, store_others, predictions, results,
                   best_model_name>>

\* save_models: joblib.dump(self.scaler, scaler_path) opens the file
TruncateScaler ==
    /\ trainer.pc = "model_saved"
    /\ store_scaler' = [store_scaler EXCEPT ![model_dir] = TruncatedFile]
    /\ trainer' = [trainer EXCEPT !.pc = "scaler_open"]
    /\ UNCHANGED <<store_detector, store_metadata, store_others, predictions, results,
                   best_model_name>>

\* save_models: joblib.dump(self.scaler, scaler_path) has written it
SaveScaler ==
    /\ trainer.pc = "scaler_open"
    /\ store_scaler' = [store_scaler EXCEPT
                           ![model_dir] = File(ScalerOf(trainer.run, trainer.n_features))]
    /\ trainer' = [trainer EXCEPT !.pc = "scaler_saved"]
    /\ UNCHANGED <<store_detector, store_metadata, store_others, predictions, results,
                   best_model_name>>

\* save_models: open(metadata_path, 'w')
TruncateMetadata ==
    /\ trainer.pc = "scaler_saved"
    /\ store_metadata' = [store_metadata EXCEPT ![model_dir] = TruncatedFile]
    /\ trainer' = [trainer EXCEPT !.pc = "metadata_open"]
    /\ UNCHANGED <<store_detector, store_scaler, store_others, predictions, results,
                   best_model_name>>

\* save_models: json.dump(metadata, f) and the end of main()
SaveMetadata ==
    /\ trainer.pc = "metadata_open"
    /\ store_metadata' = [store_metadata EXCEPT
                             ![model_dir] = File(MetadataOf(trainer.run, best_model_name,
                                                            trainer.n_features))]
    /\ trainer' = [trainer EXCEPT !.pc = "done"]
    /\ UNCHANGED <<store_detector, store_scaler, store_others, predictions, results,
                   best_model_name>>

\* main() is run again: a later training run reaches save_models
StartNextRun ==
    /\ trainer.pc = "done"
    /\ trainer.run < MaxRun
    /\ \E alg \in Range(Algorithms), n \in 1..MaxFeatures :
          /\ trainer' = [trainer EXCEPT !.pc = "analyzed", !.run = @ + 1, !.n_features = n]
          /\ best_model_name' = alg
    /\ UNCHANGED <<storeVars, predictions, results>>

\* the read step the loader is at: loader_pc is "start", or the file read last
NextStep ==
    IF loader_pc = "start" THEN 1
    ELSE (CHOOSE i \in DOMAIN ReadSteps : ReadSteps[i].file = loader_pc) + 1

AtStep == loader_pc = "start" \/ \E i \in DOMAIN ReadSteps : ReadSteps[i].file = loader_pc

\* one read of load_all_models done: the object is assigned
AfterRead ==
    LET step == ReadSteps[NextStep]
        st == Assigned(LoaderState, step, FileOnDisk(step).obj)
    IN /\ models' = st.models
       /\ scalers' = st.scalers
       /\ metadata' = st.metadata
       /\ label_encoders' = st.label_encoders
       /\ loader_pc' = IF NextStep = Len(ReadSteps) THEN "done" ELSE step.file

\* a read of one of the files of models 1 to 3, of model 5 or of the
\* preprocessing components
LoadOtherFile ==
    /\ AtStep
    /\ ReadSteps[NextStep].file \in OtherFiles
    /\ Readable(FileOnDisk(ReadSteps[NextStep]))
    /\ AfterRead

\* _load_anomaly_detection_model: pickle.load of anomaly_detection_system.pkl
LoadDetectorFile ==
    /\ AtStep
    /\ ReadSteps[NextStep].file = "anomaly_detection_system.pkl"
    /\ Readable(store_detector[model_path])
    /\ AfterRead

\* _load_anomaly_detection_model: pickle.load of anomaly_detection_scaler.pkl
LoadScalerFile ==
    /\ AtStep
    /\ ReadSteps[NextStep].file = "anomaly_detection_scaler.pkl"
    /\ Readable(store_scaler[model_path])
    /\ AfterRead

\* _load_anomaly_detection_model: json.load of anomaly_detection_metadata.json
LoadMetadataFile ==
    /\ AtStep
    /\ ReadSteps[NextStep].file = "anomaly_detection_metadata.json"
    /\ Readable(store_metadata[model_path])
    /\ AfterRead

\* a read that raises: load_all_models logs and raises again
LoadFileFails ==
    /\ AtStep
    /\ ~Readable(FileOnDisk(ReadSteps[NextStep]))
    /\ loader_pc' = "failed"
    /\ UNCHANGED <<models, scalers, metadata, label_encoders>>

----------------------------------------------------------------------------
(* process_aqi_estimation.py: AQI from PM2.5 *)

MaxPm25Tenths == 5050

\* (pm_low, pm_high, aqi_low, aqi_high) in whole units
breakpoints ==
    << <<0, 30, 0, 50>>, <<31, 60, 51, 100>>, <<61, 90, 101, 200>>,
       <<91, 120, 201, 300>>, <<121, 250, 301, 400>>, <<251, 500, 401, 500>> >>

\* the loop over the breakpoints; the interpolated AQI is kept in
\* hundredths, rounded down
RECURSIVE AqiScan(_, _)
AqiScan(bps, pm25) ==
    IF bps = <<>> THEN Num(50000)
    ELSE LET pm_low == Head(bps)[1]
             pm_high == Head(bps)[2]
             aqi_low == Head(bps)[3]
             aqi_high == Head(bps)[4]
         IN IF ValGe(pm25, 100 * pm_low) /\ ValLe(pm25, 100 * pm_high)
            THEN Num(100 * aqi_low
                     + ((aqi_high - aqi_low) * (pm25.v - 100 * pm_low))
                          \div (pm_high - pm_low))
            ELSE AqiScan(Tail(bps), pm25)

\* an AQI cut down to its whole part
Truncated(val) == Num(100 * (val.v \div 100))
calculate_aqi_from_pm25_Truncated(pm25) == Truncated(AqiScan(breakpoints, pm25))

calculate_aqi_from_pm25(pm25) == AqiScan(breakpoints, pm25)

\* the PM2.5 values a row can carry: a grid of tenths, NaN and the infinities
Pm25Values ==
    {Num(10 * i) : i \in (-20)..MaxPm25Tenths} \cup {NaN, PosInf, NegInf}

AqiInit ==
    aqi_record \in [pm25 : Pm25Values, aqi_estimated : {NotComputed}, done : {FALSE}]

AqiIdle ==
    aqi_record = [pm25 |-> Num(0), aqi_estimated |-> NotComputed, done |-> FALSE]

\* one row of the AQI table: aqi = calculate_aqi_from_pm25(pm25)
CalculateAqi ==
    /\ ~aqi_record.done
    /\ aqi_record' = [aqi_record EXCEPT
                         !.aqi_estimated = calculate_aqi_from_pm25(aqi_record.pm25),
                         !.done = TRUE]
    /\ UNCHANGED <<heat_record, flood_record>>

----------------------------------------------------------------------------
(* process_heat_index.py: heat index from T2M and RH2M                     *)
(*                                                                         *)
(* T2M is held in whole degrees Celsius and RH2M in whole percent; a       *)
(* Fahrenheit temperature is held as five times its value (9*T2M + 160),   *)
(* which is exact; a heat index is held in units of 1/10000 of a degree,   *)
(* rounded down.                                                           *)

MaxTempC == 45
MaxHumidity == 100

\* the Rothfusz coefficients: c1 in units of 1e-4, c2..c9 in units of 1e-8
c1 == -423790
c2 == 204901523
c3 == 1014333127
c4 == -22475541
c5 == -683783
c6 == -5481717
c7 == 122874
c8 == 85282
c9 == -199

\* a * b = q * d + r with 0 <= r < d, for a, b >= 0, without an
\* intermediate product above a + 2 * d
RECURSIVE MulDiv(_, _, _)
MulDiv(a, b, d) ==
    IF b = 0 THEN [q |-> 0, r |-> 0]
    ELSE LET h == MulDiv(a, b \div 2, d)
             r2 == 2 * h.r + (IF b % 2 = 1 THEN a ELSE 0)
         IN [q |-> 2 * h.q + r2 \div d, r |-> r2 % d]

\* the common denominator of the terms: 1e-8 coefficients, 1e-4 result,
\* and 25 for the two factors of five in temp_f**2
RothfuszDen == 25 * 10000

\* c * m / RothfuszDen as a signed quotient and remainder
Term(c, m) ==
    LET sgn == IF (c < 0) = (m < 0) THEN 1 ELSE -1
        md == MulDiv(Abs(c), Abs(m), RothfuszDen)
    IN [q |-> sgn * md.q, r |-> sgn * md.r]

\* df['temp_f'] = T2M * 9/5 + 32, times five
temp_f(T2M) == IF T2M.k = "num" THEN Num(9 * T2M.v + 160) ELSE T2M

\* simple_hi = 0.5 * (temp_f + 61.0 + (temp_f - 68.0) * 1.2 + humidity * 0.094)
simple_hi(tf5, humidity) ==
    1000 * tf5 + 305000 + 1200 * (tf5 - 340) + 470 * humidity

\* the nine-term polynomial without its last term
rothfusz_NoC9(tf5, humidity) ==
    LET t == << Term(c2, 5 * tf5), Term(c3, 25 * humidity),
                Term(c4, 5 * tf5 * humidity), Term(c5, tf5 * tf5),
                Term(c6, 25 * humidity * humidity),
                Term(c7, tf5 * tf5 * humidity),
                Term(c8, 5 * tf5 * humidity * humidity) >>
        Q == t[1].q + t[2].q + t[3].q + t[4].q + t[5].q + t[6].q + t[7].q
        R == t[1].r + t[2].r + t[3].r + t[4].r + t[5].r + t[6].r + t[7].r
    IN c1 + Q + R \div RothfuszDen

\* hi = c1 + c2*T + c3*H + c4*T*H + c5*T^2 + c6*H^2 + c7*T^2*H + c8*T*H^2
\*      + c9*T^2*H^2, the exact value rounded down
rothfusz(tf5, humidity) ==
    LET t == << Term(c2, 5 * tf5), Term(c3, 25 * humidity),
                Term(c4, 5 * tf5 * humidity), Term(c5, tf5 * tf5),
                Term(c6, 25 * humidity * humidity),
                Term(c7, tf5 * tf5 * humidity),
                Term(c8, 5 * tf5 * humidity * humidity),
                Term(c9 * humidity * humidity, tf5 * tf5) >>
        Q == t[1].q + t[2].q + t[3].q + t[4].q + t[5].q + t[6].q + t[7].q + t[8].q
        R == t[1].r + t[2].r + t[3].r + t[4].r + t[5].r + t[6].r + t[7].r + t[8].r
    IN c1 + Q + R \div RothfuszDen

\* the simple formula applied to every input
calculate_heat_index_SimpleOnly(tf, humidity) ==
    IF tf.k = "nan" \/ humidity.k = "nan" THEN NaN
    ELSE Num(simple_hi(tf.v, humidity.v))

\* calculate_heat_index(temp_f, humidity); NaN < 80 is False and the
\* polynomial of a NaN is NaN
calculate_heat_index(tf, humidity) ==
    IF tf.k = "nan" \/ humidity.k = "nan" THEN NaN
    ELSE IF simple_hi(tf.v, humidity.v) < 800000
         THEN Num(simple_hi(tf.v, humidity.v))
         ELSE Num(rothfusz(tf.v, humidity.v))

\* df['heat_index_c'] = (df['heat_index_f'] - 32) * 5/9
heat_index_c(hi_f) ==
    IF hi_f.k = "num" THEN Num(((hi_f.v - 320000) * 5) \div 9) ELSE hi_f

\* the T2M and RH2M a NASA POWER row can carry: whole values, the -999
\* fill value and NaN
TempValues == {Num(t) : t \in 0..MaxTempC} \cup {Num(-999), NaN}
HumidityValues == {Num(h) : h \in 0..MaxHumidity} \cup {Num(-999), NaN}

HeatInit ==
    heat_record \in [T2M : TempValues, RH2M : HumidityValues,
                     heat_index_f : {NotComputed}, heat_index_c : {NotComputed},
                     done : {FALSE}]

HeatIdle ==
    heat_record = [T2M |-> Num(0), RH2M |-> Num(0), heat_index_f |-> NotComputed,
                   heat_index_c |-> NotComputed, done |-> FALSE]

\* one row of process_heat_index
ProcessHeatIndex ==
    /\ ~heat_record.done
    /\ LET hi_f == calculate_heat_index(temp_f(heat_record.T2M), heat_record.RH2M)
       IN heat_record' = [heat_record EXCEPT !.heat_index_f = hi_f,
                                              !.heat_index_c = heat_index_c(hi_f),
                                              !.done = TRUE]
    /\ UNCHANGED <<aqi_record, flood_record>>

----------------------------------------------------------------------------
(* process_flood_risk.py: flood risk score *)

MaxSoilSteps == 10
MaxPrecipSteps == 12
MaxNdwiSteps == 8

\* the NDWI component with its two upper steps exchanged
ndwi_component_Swapped(ndwi) ==
    IF ndwi.k # "none"
    THEN IF ValGt(ndwi, 30) THEN 20
         ELSE IF ValGt(ndwi, 10) THEN 30
         ELSE IF ValGt(ndwi, -10) THEN 10
         ELSE 0
    ELSE 15

\* a missing precipitation counted as nothing
precipitation_component_NoDefault(precipitation) ==
    IF precipitation.k # "none"
    THEN IF ValGt(precipitation, 5000) THEN 30
         ELSE IF ValGt(precipitation, 2500) THEN 20
         ELSE IF ValGt(precipitation, 1000) THEN 10
         ELSE 0
    ELSE 0

\* soil moisture component
soil_component(soil_moisture) ==
    IF ValGt(soil_moisture, 40) THEN 40
    ELSE IF ValGt(soil_moisture, 30) THEN 25
    ELSE IF ValGt(soil_moisture, 20) THEN 10
    ELSE 0

\* precipitation component, if available
precipitation_component(precipitation) ==
    IF precipitation.k # "none"
    THEN IF ValGt(precipitation, 5000) THEN 30
         ELSE IF ValGt(precipitation, 2500) THEN 20
         ELSE IF ValGt(precipitation, 1000) THEN 10
         ELSE 0
    ELSE 15

\* water body extent component, if NDWI available
ndwi_component(ndwi) ==
    IF ndwi.k # "none"
    THEN IF ValGt(ndwi, 30) THEN 30
         ELSE IF ValGt(ndwi, 10) THEN 20
         ELSE IF ValGt(ndwi, -10) THEN 10
         ELSE 0
    ELSE 15

Min(a, b) == IF a < b THEN a ELSE b

\* calculate_flood_risk_score(soil_moisture, precipitation, ndwi): a whole score
calculate_flood_risk_score(soil_moisture, precipitation, ndwi) ==
    Min(soil_component(soil_moisture) + precipitation_component(precipitation)
          + ndwi_component(ndwi), 100)

\* the arguments a row can carry: soil moisture and NDWI in steps of 0.05,
\* precipitation in steps of 5 mm, NaN, and None for the optional two
SoilValues == {Num(5 * i) : i \in 0..MaxSoilSteps} \cup {NaN}
PrecipValues == {Num(500 * i) : i \in 0..MaxPrecipSteps} \cup {NaN, None}
NdwiValues == {Num(5 * i) : i \in (-4)..MaxNdwiSteps} \cup {NaN, None}

FloodInit ==
    flood_record \in [soil_moisture : SoilValues, precipitation : PrecipValues,
                      ndwi : NdwiValues, flood_risk_score : {-1}, done : {FALSE}]

FloodIdle ==
    flood_record = [soil_moisture |-> Num(0), precipitation |-> None, ndwi |-> None,
                    flood_risk_score |-> -1, done |-> FALSE]

\* one row of the flood risk table
CalculateFloodRisk ==
    /\ ~flood_record.done
    /\ flood_record' = [flood_record EXCEPT
          !.flood_risk_score =
              calculate_flood_risk_score(flood_record.soil_moisture,
                                         flood_record.precipitation, flood_record.ndwi),
          !.done = TRUE]
    /\ UNCHANGED <<aqi_record, heat_record>>

----------------------------------------------------------------------------
(* process_aqi_estimation.py: the rows of mumbai_aqi_estimation.csv        *)
(*                                                                         *)
(* AOD is held in tenths and humidity in whole percent.  A PM2.5 value is  *)
(* held in millionths, which is exact for these inputs and for the 1.15    *)
(* factor; an AQI is held in hundredths, rounded down; the recorded        *)
(* pm25_estimated is held in tenths.                                       *)

MaxAodTenths == 300
MaxHumidityPct == 100

\* np.clip(x, lo, hi)
Clip(x, lo, hi) == IF x < lo THEN lo ELSE IF x > hi THEN hi ELSE x

\* the estimate left as computed, without np.clip
estimate_pm25_from_aod_Unclipped(aod_550nm, humidity) ==
    aod_550nm * 25000 * (100 + (humidity - 50))

\* estimate_pm25_from_aod(aod_550nm, humidity):
\* aod * base_scaling * (1 + (humidity - 50) * 0.01), clipped to [0, 500]
estimate_pm25_from_aod(aod_550nm, humidity) ==
    Clip(aod_550nm * 25000 * (100 + (humidity - 50)), 0, 500000000)

\* calculate_aqi_from_pm25 for a PM2.5 value in millionths
RECURSIVE AqiScanMicro(_, _)
AqiScanMicro(bps, pm25) ==
    IF bps = <<>> THEN 50000
    ELSE LET pm_low == Head(bps)[1]
             pm_high == Head(bps)[2]
             aqi_low == Head(bps)[3]
             aqi_high == Head(bps)[4]
         IN IF 1000000 * pm_low <= pm25 /\ pm25 <= 1000000 * pm_high
            THEN 100 * aqi_low
                   + MulDiv(100 * (aqi_high - aqi_low), pm25 - 1000000 * pm_low,
                            1000000 * (pm_high - pm_low)).q
            ELSE AqiScanMicro(Tail(bps), pm25)

\* a str, or the tuple (name, colour)
Str(name) == [kind |-> "str", name |-> name, color |-> ""]
Tuple(name, color) == [kind |-> "tuple", name |-> name, color |-> color]

\* get_aqi_category as the module binds it: the second definition (lines
\* 95-108) replaces the first and returns the tuple (name, colour)
get_aqi_category(aqi) ==
    IF aqi <= 5000 THEN Tuple("Good", "green")
    ELSE IF aqi <= 10000 THEN Tuple("Satisfactory", "lightgreen")
    ELSE IF aqi <= 20000 THEN Tuple("Moderate", "yellow")
    ELSE IF aqi <= 30000 THEN Tuple("Poor", "orange")
    ELSE IF aqi <= 40000 THEN Tuple("Very Poor", "red")
    ELSE Tuple("Severe", "maroon")

\* the colors dict of get_aqi_color
colors ==
    [n \in {"Good", "Satisfactory", "Moderate", "Poor", "Very Poor", "Severe"} |->
        CASE n = "Good" -> "green"
          [] n = "Satisfactory" -> "lightgreen"
          [] n = "Moderate" -> "yellow"
          [] n = "Poor" -> "orange"
          [] n = "Very Poor" -> "red"
          [] n = "Severe" -> "darkred"]

\* get_aqi_color(category): colors.get(category, "gray"); a tuple is no key
get_aqi_color(category) ==
    IF category.kind = "str" /\ category.name \in DOMAIN colors
    THEN colors[category.name]
    ELSE "gray"

\* The doubles of a row.  pm25 and aqi are IEEE doubles; the model holds
\* their exact values, and for the inputs at which the exact value stands on
\* a rounding boundary it records on which side of it the double stands.
\* the (path, AOD, humidity) at which pm25 lies exactly halfway between two
\* tenths and the double pm25 * 10 lies below that half
TenfoldBelowHalf ==
    {<<"modis", 1, 68>>, <<"modis", 2, 63>>, <<"modis", 2, 69>>,
     <<"modis", 3, 92>>, <<"modis", 6, 67>>, <<"modis", 6, 69>>,
     <<"modis", 7, 72>>, <<"modis", 7, 92>>, <<"modis", 10, 63>>,
     <<"modis", 10, 65>>, <<"modis", 13, 88>>, <<"modis", 14, 67>>,
     <<"modis", 15, 88>>, <<"modis", 18, 63>>, <<"modis", 18, 65>>,
     <<"modis", 21, 88>>, <<"modis", 23, 72>>, <<"modis", 23, 76>>,
     <<"modis", 23, 88>>, <<"modis", 23, 92>>, <<"modis", 26, 63>>,
     <<"modis", 26, 71>>, <<"modis", 27, 68>>, <<"modis", 27, 88>>,
     <<"modis", 30, 63>>, <<"omi", 2, 90>>, <<"omi", 4, 60>>,
     <<"omi", 5, 86>>, <<"omi", 8, 75>>, <<"omi", 8, 95>>, <<"omi", 10, 66>>,
     <<"omi", 10, 82>>, <<"omi", 11, 70>>, <<"omi", 12, 60>>,
     <<"omi", 12, 80>>, <<"omi", 13, 70>>, <<"omi", 15, 70>>,
     <<"omi", 15, 86>>, <<"omi", 18, 90>>, <<"omi", 20, 72>>,
     <<"omi", 20, 76>>, <<"omi", 20, 92>>, <<"omi", 21, 70>>,
     <<"omi", 23, 70>>, <<"omi", 24, 85>>, <<"omi", 25, 86>>,
     <<"omi", 27, 70>>, <<"omi", 30, 90>>}

\* ... and at which the double pm25 * 10 lies above that half
TenfoldAboveHalf ==
    {<<"modis", 1, 64>>, <<"modis", 2, 61>>, <<"modis", 2, 89>>,
     <<"modis", 5, 60>>, <<"modis", 5, 64>>, <<"modis", 6, 61>>,
     <<"modis", 6, 81>>, <<"modis", 6, 83>>, <<"modis", 6, 91>>,
     <<"modis", 7, 64>>, <<"modis", 7, 84>>, <<"modis", 9, 60>>,
     <<"modis", 10, 61>>, <<"modis", 11, 60>>, <<"modis", 11, 64>>,
     <<"modis", 11, 72>>, <<"modis", 11, 76>>, <<"modis", 11, 80>>,
     <<"modis", 11, 84>>, <<"modis", 11, 92>>, <<"modis", 13, 64>>,
     <<"modis", 13, 84>>, <<"modis", 14, 83>>, <<"modis", 14, 89>>,
     <<"modis", 14, 91>>, <<"modis", 15, 64>>, <<"modis", 17, 60>>,
     <<"modis", 18, 85>>, <<"modis", 19, 60>>, <<"modis", 21, 60>>,
     <<"modis", 21, 64>>, <<"modis", 21, 84>>, <<"modis", 22, 61>>,
     <<"modis", 22, 67>>, <<"modis", 22, 71>>, <<"modis", 22, 75>>,
     <<"modis", 22, 77>>, <<"modis", 22, 79>>, <<"modis", 22, 81>>,
     <<"modis", 22, 83>>, <<"modis", 22, 85>>, <<"modis", 22, 87>>,
     <<"modis", 22, 89>>, <<"modis", 22, 91>>, <<"modis", 22, 95>>,
     <<"modis", 25, 64>>, <<"modis", 26, 79>>, <<"modis", 26, 87>>,
     <<"modis", 26, 89>>, <<"modis", 30, 61>>, <<"modis", 30, 87>>,
     <<"modis", 30, 89>>, <<"modis", 30, 91>>, <<"placeholder", 6, 81>>,
     <<"placeholder", 6, 83>>, <<"placeholder", 7, 84>>,
     <<"placeholder", 11, 76>>, <<"placeholder", 11, 80>>,
     <<"placeholder", 11, 84>>}

\* the (path, AOD, humidity) of the two paths that record int(aqi) at which
\* the AQI is a whole number and the double aqi lies below it
AqiBelowWhole ==
    {<<"modis", 1, 94>>, <<"modis", 2, 94>>, <<"modis", 3, 86>>,
     <<"modis", 4, 94>>, <<"modis", 6, 66>>, <<"modis", 6, 86>>,
     <<"modis", 8, 94>>}

\* -1, 0 or 1: the side of the half on which the double pm25 * 10 stands
TenfoldSide(path, aod, humidity) ==
    IF <<path, aod, humidity>> \in TenfoldBelowHalf THEN -1
    ELSE IF <<path, aod, humidity>> \in TenfoldAboveHalf THEN 1
    ELSE 0

\* round(pm25, 1) of a numpy double, rint(pm25 * 10) / 10: millionths to
\* tenths; a product standing on the half goes to the even tenth, one
\* standing beside it goes to its own side
Round1(x, side) ==
    LET q == x \div 100000
        r == x % 100000
    IN IF r > 50000 \/ (r = 50000 /\ (side > 0 \/ (side = 0 /\ q % 2 = 1)))
       THEN q + 1
       ELSE q

\* int(aqi): hundredths to the whole part (aqi is never negative); a double
\* standing below the whole number it should be is cut to the one before
IntPart(aqi, below) ==
    IF below /\ aqi % 100 = 0 /\ aqi > 0 THEN aqi - 100 ELSE 100 * (aqi \div 100)

\* the row each path appends for one (aod, humidity)
RowOf(path, aod, humidity) ==
    LET \* the OMI factor 1.15 is 23/20; an estimate is a multiple of 20
        pm25 == IF path = "omi"
                THEN (estimate_pm25_from_aod(aod, humidity) \div 20) * 23
                ELSE estimate_pm25_from_aod(aod, humidity)
        aqi == AqiScanMicro(breakpoints, pm25)
        category == get_aqi_category(aqi)
    IN [ path |-> path, aod |-> aod, humidity |-> humidity, pm25 |-> pm25,
         pm25_estimated |-> Round1(pm25, TenfoldSide(path, aod, humidity)),
         aqi_estimated |-> IF path = "placeholder" THEN aqi
                           ELSE IntPart(aqi, <<path, aod, humidity>> \in AqiBelowWhole),
         aqi_category |-> IF path = "placeholder" THEN Str(category.name) ELSE category,
         aqi_color |-> IF path = "placeholder" THEN category.color
                       ELSE get_aqi_color(category),
         done |-> TRUE ]

\* the AOD (tenths) and humidity each path draws: the real-data paths clip
\* AOD to [0.1, 3.0] and humidity to [60, 95], the placeholder draws
\* uniformly from [0.3, 1.2] and [75, 90]
PathInputs ==
    {[path |-> p, aod |-> a, humidity |-> h] :
        p \in {"modis", "omi"}, a \in 1..30, h \in 60..95}
    \cup {[path |-> "placeholder", aod |-> a, humidity |-> h] : a \in 3..12, h \in 75..90}

NoRow(in) ==
    [ path |-> in.path, aod |-> in.aod, humidity |-> in.humidity, pm25 |-> 0,
      pm25_estimated |-> 0, aqi_estimated |-> 0, aqi_category |-> Str(""),
      aqi_color |-> "", done |-> FALSE ]

NoAqiRow == [NoRow([path |-> "none", aod |-> 0, humidity |-> 0]) EXCEPT !.done = TRUE]
NoPm25Call == [aod |-> 0, humidity |-> 0, pm25 |-> 0, done |-> TRUE]

AqiRowIdle == aqi_row = NoAqiRow /\ pm25_call = NoPm25Call

\* either a direct call of estimate_pm25_from_aod or one row of a path
AqiRowInit ==
    \/ /\ aqi_row \in {NoRow(in) : in \in PathInputs}
       /\ pm25_call = NoPm25Call
    \/ /\ aqi_row = NoAqiRow
       /\ pm25_call \in [aod : (-10)..MaxAodTenths,
                         humidity : {10 * i : i \in (-10)..(MaxHumidityPct \div 10)},
                         pm25 : {0}, done : {FALSE}]

\* a call of estimate_pm25_from_aod
EstimatePm25 ==
    /\ ~pm25_call.done
    /\ pm25_call' = [pm25_call EXCEPT
                        !.pm25 = estimate_pm25_from_aod(pm25_call.aod, pm25_call.humidity),
                        !.done = TRUE]
    /\ UNCHANGED <<aqi_row, flood_row>>

\* one pass of the loop of process_real_nasa_data, process_real_modis_data
\* or create_placeholder_aqi
AppendAqiRow ==
    /\ ~aqi_row.done
    /\ aqi_row' = RowOf(aqi_row.path, aqi_row.aod, aqi_row.humidity)
    /\ UNCHANGED <<pm25_call, flood_row>>

----------------------------------------------------------------------------
(* process_flood_risk.py: the rows of mumbai_flood_risk.csv                *)
(*                                                                         *)
(* Soil moisture and NDWI are held in hundredths, precipitation in         *)
(* hundredths of a millimetre, as in calculate_flood_risk_score.  The      *)
(* enhanced risk base * 1.1 is held in tenths, which is exact.             *)

MaxRainSteps == 30

\* get_flood_risk_category with 20, 40, 60 and 80 counted into the lower class
get_flood_risk_category_Inclusive(risk_score) ==
    IF risk_score <= 20 THEN [category |-> "Low Risk", color |-> "green"]
    ELSE IF risk_score <= 40 THEN [category |-> "Moderate Risk", color |-> "yellow"]
    ELSE IF risk_score <= 60 THEN [category |-> "High Risk", color |-> "orange"]
    ELSE IF risk_score <= 80 THEN [category |-> "Very High Risk", color |-> "red"]
    ELSE [category |-> "Extreme Risk", color |-> "darkred"]

\* get_flood_risk_category(risk_score): the pair (category, colour)
get_flood_risk_category(risk_score) ==
    IF risk_score < 20 THEN [category |-> "Low Risk", color |-> "green"]
    ELSE IF risk_score < 40 THEN [category |-> "Moderate Risk", color |-> "yellow"]
    ELSE IF risk_score < 60 THEN [category |-> "High Risk", color |-> "orange"]
    ELSE IF risk_score < 80 THEN [category |-> "Very High Risk", color |-> "red"]
    ELSE [category |-> "Extreme Risk", color |-> "darkred"]

\* the if/elif chain the two real-data paths carry inline; unit is the number
\* of units of risk_score in one point
InlineCategory(risk_score, unit) ==
    IF risk_score >= 80 * unit THEN [category |-> "Extreme Risk", color |-> "darkred"]
    ELSE IF risk_score >= 60 * unit THEN [category |-> "Very High Risk", color |-> "red"]
    ELSE IF risk_score >= 40 * unit THEN [category |-> "High Risk", color |-> "orange"]
    ELSE IF risk_score >= 20 * unit THEN [category |-> "Moderate Risk", color |-> "yellow"]
    ELSE [category |-> "Low Risk", color |-> "green"]

\* enhanced_risk = min(base_risk * 1.1, 100), in tenths
enhanced_risk(base_risk) == Min(base_risk * 11, 1000)

\* the row each path appends for one (soil_moisture, precipitation, ndwi)
FloodRowOf(path, soil_moisture, precipitation, ndwi) ==
    LET risk_score == calculate_flood_risk_score(soil_moisture, precipitation, ndwi)
        enhanced == enhanced_risk(risk_score)
        pair == CASE path = "demonstration" -> get_flood_risk_category(risk_score)
                  [] path = "smap" -> InlineCategory(risk_score, 1)
                  [] path = "landsat" -> InlineCategory(enhanced, 10)
    IN [ path |-> path, soil_moisture |-> soil_moisture,
         precipitation |-> precipitation, ndwi |-> ndwi,
         flood_risk_score |-> IF path = "landsat" THEN enhanced \div 10 ELSE risk_score,
         risk_category |-> pair.category, risk_color |-> pair.color, done |-> TRUE ]

\* the values each path draws.  The real-data paths take soil moisture from
\* [0, 0.6], precipitation clipped to [0, 150] and NDWI from [0, 0.5]; the
\* demonstration draws from [0.35, 0.55], [20, 80], [0.1, 0.4] in the monsoon
\* months and from [0.15, 0.35], [0, 15], [-0.1, 0.2] otherwise.  Soil
\* moisture and NDWI move in steps of 0.05, precipitation in steps of 5 mm.
FloodPathInputs ==
    {[path |-> p, soil_moisture |-> Num(5 * i), precipitation |-> Num(500 * j),
      ndwi |-> Num(5 * k)] :
        p \in {"smap", "landsat"}, i \in 0..12, j \in 0..MaxRainSteps, k \in 0..10}
    \cup {[path |-> "demonstration", soil_moisture |-> Num(5 * i),
           precipitation |-> Num(500 * j), ndwi |-> Num(5 * k)] :
             i \in 7..11, j \in 4..16, k \in 2..8}
    \cup {[path |-> "demonstration", soil_moisture |-> Num(5 * i),
           precipitation |-> Num(500 * j), ndwi |-> Num(5 * k)] :
             i \in 3..7, j \in 0..3, k \in (-2)..4}

NoFloodRowOf(in) ==
    [ path |-> in.path, soil_moisture |-> in.soil_moisture,
      precipitation |-> in.precipitation, ndwi |-> in.ndwi,
      flood_risk_score |-> -1, risk_category |-> "", risk_color |-> "", done |-> FALSE ]

NoFloodRow ==
    [NoFloodRowOf([path |-> "none", soil_moisture |-> Num(0), precipitation |-> Num(0),
                   ndwi |-> Num(0)]) EXCEPT !.done = TRUE]

FloodRowInit == flood_row \in {NoFloodRowOf(in) : in \in FloodPathInputs}

FloodRowIdle == flood_row = NoFloodRow

\* one pass of the loop of create_demonstration_flood_risk,
\* process_real_smap_flood_data or process_real_flood_data
AppendFloodRow ==
    /\ ~flood_row.done
    /\ flood_row' = FloodRowOf(flood_row.path, flood_row.soil_moisture,
                               flood_row.precipitation, flood_row.ndwi)
    /\ UNCHANGED <<pm25_call, aqi_row>>

----------------------------------------------------------------------------
(* AnomalyDetectionSystem.create_synthetic_anomalies, row by row           *)
(*                                                                         *)
(* A cell of the feature matrix is either the value load_data left there   *)
(* or an outlier feature_mean + multiplier * feature_std, with mean and    *)
(* std of the column of features_df; the multiplier is held in tenths.     *)
(* The state of numpy's global generator is kept per process: the seed it  *)
(* was set from and the number of calls made on it since. A process starts *)
(* with a generator seeded from the operating system, each process from a  *)
(* seed of its own. What the generator yields is not computed: it is a     *)
(* fixed but unknown function of its                                       *)
(* state, so the first use of a state chooses the outcome and every later  *)
(* use of the same state repeats it. The same holds for what a detector    *)
(* fitted on given data flags.                                             *)

MaxSmallSamples == 11
MaxInjSamples == 20
MaxInjFeatures == 4
MaxRepeatSamples == 11
MaxRepeatFalsePos == 1
MaxRepeatRuns == 2

\* the subsets of S with k elements: np.random.choice(S, k, replace=False)
RECURSIVE Comb(_, _)
Comb(S, k) ==
    IF k = 0 THEN {{}}
    ELSE UNION {{{x} \cup T : T \in Comb({y \in S : y > x}, k - 1)} : x \in S}

Orig == [outlier |-> FALSE, multiplier |-> 0]
Outlier(m) == [outlier |-> TRUE, multiplier |-> m]

\* the matrix load_data leaves in self.features_df
Original(n, f) == [r \in 1..n |-> [c \in 1..f |-> Orig]]

\* np.random.choice([-1, 1]) * np.random.uniform(3, 5)
Multipliers == {sgn * m : sgn \in {-1, 1}, m \in {30, 45}}

\* np.random.randint(1, min(4, len(self.feature_cols))): the upper end is
\* exclusive, and an empty range raises ValueError
ModifyCounts(n_cols) == 1..(Min(4, n_cols) - 1)

\* what one pass of the loop may write into a row: the features chosen
\* without replacement, each with its multiplier
RowMods(n_cols) ==
    UNION {UNION {[F -> Multipliers] : F \in Comb(1..n_cols, k)} : k \in ModifyCounts(n_cols)}

\* the generator of the process of a run when it starts: seeded by the
\* operating system, differently for every process and never with 42
Started(run) == [seed |-> 1000 + run, drawn |-> 0]

\* a seed call that leaves the generator as it was
np_random_seed_Skipped(state, seed) == state

\* np.random.seed(seed): the generator restarts from the seed, whatever its
\* state was
np_random_seed(state, seed) == [seed |-> seed, drawn |-> 0]

\* the calls the loop of create_synthetic_anomalies makes on the generator
\* for the rows of mods: per row randint and the choice of features, per
\* feature the sign and the size of the multiplier
RECURSIVE LoopDraws(_, _)
LoopDraws(mods, rows) ==
    IF rows = {} THEN 0
    ELSE LET r == CHOOSE x \in rows : TRUE
         IN 2 + 2 * Cardinality(DOMAIN mods[r]) + LoopDraws(mods, rows \ {r})

\* the generator after the choice of the rows and the loop
AfterDraws(state, mods) ==
    [state EXCEPT !.drawn = @ + 1 + LoopDraws(mods, DOMAIN mods)]

\* a copy that is the frame itself
Copy_Alias(df, written) == written

\* self.features_df.copy(): writes to the copy do not reach the frame
Copy(df, written) == df

\* self.labels after self.labels[anomaly_indices] = 1
LabelsOf(n, anomaly_indices) == [r \in 1..n |-> IF r \in anomaly_indices THEN 1 ELSE 0]

\* the working copy after the loop has written mods
InjectInto(matrix, mods) ==
    [r \in DOMAIN matrix |->
        [c \in DOMAIN matrix[r] |->
            IF r \in DOMAIN mods /\ c \in DOMAIN mods[r]
            THEN Outlier(mods[r][c])
            ELSE matrix[r][c]]]

\* the shapes of the loaded matrix: 9 to 11 rows with up to four feature
\* columns, and 20 rows (two anomalies) with up to two
InjShapes ==
    {[n |-> n, f |-> f] : n \in 9..MaxSmallSamples, f \in 1..MaxInjFeatures}
    \cup {[n |-> n, f |-> f] : n \in 20..MaxInjSamples, f \in 1..2}

RepeatShapes == {[n |-> n, f |-> 2] : n \in 10..MaxRepeatSamples}

NoInj ==
    [pc |-> "idle", run |-> 0, n_samples |-> 0, n_features |-> 0, raised |-> "none",
     generator |-> Started(0)]

InjIdle ==
    /\ inj = NoInj
    /\ features_df = <<>>
    /\ features_with_anomalies = <<>>
    /\ labels = <<>>
    /\ inj_predictions = EmptyDict
    /\ stream_memo = EmptyDict
    /\ fit_memo = EmptyDict
    /\ run_log = <<>>

\* load_data has returned True in a process that has made no draw
InjInitOf(shapes) ==
    /\ \E sh \in shapes :
          /\ inj = [pc |-> "loaded", run |-> 1, n_samples |-> sh.n, n_features |-> sh.f,
                    raised |-> "none", generator |-> Started(1)]
          /\ features_df = Original(sh.n, sh.f)
    /\ features_with_anomalies = <<>>
    /\ labels = <<>>
    /\ inj_predictions = EmptyDict
    /\ stream_memo = EmptyDict
    /\ fit_memo = EmptyDict
    /\ run_log = <<>>

\* m with key k bound to v
Remember(m, k, v) == [x \in DOMAIN m \cup {k} |-> IF x = k THEN v ELSE m[x]]

\* create_synthetic_anomalies
InjectSyntheticAnomalies ==
    /\ inj.pc = "loaded"
    /\ LET n_samples == inj.n_samples
           n_anomalies == n_samples \div 10
           seeded == np_random_seed(inj.generator, 42)
           key == [state |-> seeded, n |-> n_samples, f |-> inj.n_features]
           raises == n_anomalies > 0 /\ ModifyCounts(inj.n_features) = {}
           drawn == IF key \in DOMAIN stream_memo
                    THEN {stream_memo[key]}
                    ELSE UNION {{[anomaly_indices |-> S, mods |-> m] :
                                    m \in IF raises THEN {EmptyDict}
                                          ELSE [S -> RowMods(inj.n_features)]} :
                                 S \in Comb(1..n_samples, n_anomalies)}
       IN \E d \in drawn :
             /\ stream_memo' = Remember(stream_memo, key, d)
             /\ labels' = LabelsOf(n_samples, d.anomaly_indices)
             /\ features_with_anomalies' = InjectInto(features_df, d.mods)
             /\ features_df' = Copy(features_df, features_with_anomalies')
             /\ inj' = IF raises
                       THEN [inj EXCEPT !.pc = "crashed", !.raised = "ValueError",
                                        !.generator = AfterDraws(seeded, d.mods)]
                       ELSE [inj EXCEPT !.pc = "injected",
                                        !.generator = AfterDraws(seeded, d.mods)]
    /\ UNCHANGED <<inj_predictions, fit_memo, run_log>>

\* what a model fitted on these rows flags, of the labelled and of the others
FlaggedOf(lab) ==
    LET pos == Cardinality({r \in DOMAIN lab : lab[r] = 1})
    IN [tp : 0..pos, fp : 0..Min(Len(lab) - pos, MaxRepeatFalsePos)]

\* the random_state each detector is constructed with (0: it takes none)
RandomStateOf(alg) == IF alg = "isolation_forest" THEN 42 ELSE 0

\* train_models: the scaler and the three detectors are fitted on the
\* working copy
TrainOnRows ==
    /\ inj.pc = "injected"
    /\ \E p \in [Range(Algorithms) -> FlaggedOf(labels)] :
          LET key(alg) == [alg |-> alg, random_state |-> RandomStateOf(alg),
                           X |-> features_with_anomalies]
          IN /\ \A alg \in Range(Algorithms) :
                    key(alg) \in DOMAIN fit_memo => p[alg] = fit_memo[key(alg)]
             /\ fit_memo' = [k \in DOMAIN fit_memo \cup {key(alg) : alg \in Range(Algorithms)} |->
                                IF k \in DOMAIN fit_memo THEN fit_memo[k] ELSE p[k.alg]]
             /\ inj_predictions' = p
    /\ inj' = [inj EXCEPT !.pc = "trained"]
    /\ UNCHANGED <<features_df, features_with_anomalies, labels, stream_memo, run_log>>

\* evaluate_models: the metrics of each model and the selection
EvaluateOnRows ==
    /\ inj.pc = "trained"
    /\ LET n_anomalies == Cardinality({r \in DOMAIN labels : labels[r] = 1})
           res == [m \in DOMAIN inj_predictions |->
                      ModelMetrics(inj_predictions[m], inj.n_samples, n_anomalies)]
           best == select_best(KeysInOrder(Algorithms, inj_predictions), res)
       IN run_log' = Append(run_log,
                            [labels |-> labels, data |-> features_with_anomalies,
                             run |-> inj.run, generator |-> inj.generator,
                             best_model_name |-> best, f1_score |-> res[best].f1_score])
    /\ inj' = [inj EXCEPT !.pc = "evaluated"]
    /\ UNCHANGED <<features_df, features_with_anomalies, labels, inj_predictions,
                   stream_memo, fit_memo>>

\* main() is run again, in a new process, on the same master_dataset.csv
RunAgain ==
    /\ inj.pc = "evaluated"
    /\ inj.run < MaxRepeatRuns
    /\ inj' = [inj EXCEPT !.pc = "loaded", !.run = @ + 1,
                          !.generator = Started(inj.run + 1)]
    /\ features_with_anomalies' = <<>>
    /\ labels' = <<>>
    /\ inj_predictions' = EmptyDict
    /\ UNCHANGED <<features_df, stream_memo, fit_memo, run_log>>

----------------------------------------------------------------------------
(* AnomalyDetectionSystem.load_data: feature selection and median fill *)

MaxFrameRows == 10
MaxFrameColumns == 2

\* the names the columns of master_dataset.csv are drawn from, after 'date'
FrameColumnNames == <<"temperature", "humidity", "rainfall", "aqi", "soil_moisture">>

\* the j-th present value of a column (even, so that a median of two
\* middle values is exact)
PresentValue(j) == 2 * ((3 * j) % 7)

\* the cells of a column of n rows with k present values, the gaps at the
\* end or at the start
CellsOf(dtype, n, k, gaps_last) ==
    [i \in 1..n |->
        LET j == IF gaps_last THEN i ELSE i - (n - k)
        IN IF j \in 1..k
           THEN IF dtype = "object" THEN Text ELSE Num(PresentValue(j))
           ELSE NaN]

\* the columns read_csv can produce for n rows: an int64 column has no gap
ColumnsOf(n) ==
    {[dtype |-> "int64", cells |-> CellsOf("int64", n, n, TRUE)]}
    \cup {[dtype |-> "float64", cells |-> CellsOf("float64", n, k, g)] :
             k \in 0..n, g \in BOOLEAN}
    \cup {[dtype |-> "object", cells |-> CellsOf("object", n, k, TRUE)] : k \in {0, n}}

\* master_df after read_csv and to_datetime: the date column, then the
\* picked columns
FrameOf(n, pick) ==
    [n |-> n,
     cols |-> <<[name |-> "date", dtype |-> "datetime64[ns]",
                 cells |-> [i \in 1..n |-> Date(i)]]>>
                \o [c \in DOMAIN pick |-> [name |-> FrameColumnNames[c],
                                            dtype |-> pick[c].dtype,
                                            cells |-> pick[c].cells]]]

\* Series.notna().sum()
notna_sum(cells) == Cardinality({i \in DOMAIN cells : cells[i].k # "nan"})

\* notna().sum() > len(master_df) * 0.7: the product is a double; for fewer
\* than 90 rows it compares with a count as the exact 7n/10 does
AboveCoverage(count, n) == 10 * count > 7 * n

RECURSIVE SortedInsert(_, _)
SortedInsert(x, sorted) ==
    IF sorted = <<>> THEN <<x>>
    ELSE IF x <= Head(sorted) THEN <<x>> \o sorted
         ELSE <<Head(sorted)>> \o SortedInsert(x, Tail(sorted))

RECURSIVE SortedPresent(_)
SortedPresent(cells) ==
    IF cells = <<>> THEN <<>>
    ELSE IF Head(cells).k = "num"
         THEN SortedInsert(Head(cells).v, SortedPresent(Tail(cells)))
         ELSE SortedPresent(Tail(cells))

\* Series.median(): gaps are skipped; NaN for a column without a value
median(cells) ==
    LET s == SortedPresent(cells)
        m == Len(s)
    IN IF m = 0 THEN NaN
       ELSE IF m % 2 = 1 THEN Num(s[(m + 1) \div 2])
       ELSE Num((s[m \div 2] + s[m \div 2 + 1]) \div 2)

\* Series.fillna(value): a NaN fill value fills nothing
fillna(cells, value) ==
    [i \in DOMAIN cells |-> IF cells[i].k = "nan" THEN value ELSE cells[i]]

\* the numeric columns other than date, in column order
NumericColumns(df) ==
    LET Numeric(col) == col.name # "date" /\ col.dtype \in {"int64", "float64"}
    IN SelectSeq(df.cols, Numeric)

\* self.feature_cols after the coverage filter, as columns
CoveredColumns(df) ==
    LET Covered(col) == AboveCoverage(notna_sum(col.cells), df.n)
    IN SelectSeq(NumericColumns(df), Covered)

NoFrame == [n |-> 0, cols |-> <<>>]

LoadIdle ==
    /\ master_df = NoFrame
    /\ feature_cols = <<>>
    /\ filled_df = <<>>
    /\ load_pc = "done"

LoadInit ==
    /\ \E n \in (MaxFrameRows - 2)..MaxFrameRows, m \in 1..MaxFrameColumns :
          \E pick \in [1..m -> ColumnsOf(n)] : master_df = FrameOf(n, pick)
    /\ feature_cols = <<>>
    /\ filled_df = <<>>
    /\ load_pc = "start"

\* load_data, the file present
LoadCsv ==
    /\ load_pc = "start"
    /\ LET kept == CoveredColumns(master_df)
       IN /\ feature_cols' = [c \in DOMAIN kept |-> kept[c].name]
          /\ filled_df' = [c \in DOMAIN kept |->
                              fillna(kept[c].cells, median(kept[c].cells))]
    /\ load_pc' = "loaded"
    /\ UNCHANGED master_df
----------------------------------------------------------------------------
(* ml_data_preparation.py: the master dataset and its engineered features  *)
(*                                                                         *)
(* A frame is its columns in order (after 'date'), their dtypes and its    *)
(* rows: by date before cleaning, a sequence in date order after it. A     *)
(* date is its day number (days since 1970-01-01; the files' ISO strings   *)
(* order as their dates do) and a text cell holds its string.              *)
(* Numbers are held in hundredths, with these exceptions:                  *)
(* environmental_stress_index and its rolling columns are held in          *)
(* thousandths (its weights are tenths, so this is exact) and the product  *)
(* of two columns in ten-thousandths. A rolling mean is rounded down to    *)
(* the column's unit; a rolling deviation is taken on the values in tenths *)
(* (the files' values are whole tenths) and rounded down to the hundredth. *)

MaxAqiSteps == 6
MaxFloodSteps == 6
MaxHeatSteps == 2
MaxPrepDates == 4

\* the first date of the files: 2024-02-27 (a Tuesday, two days before a
\* leap day), 2024-05-30 (a Thursday, two days before June) and 2024-11-29
\* (a Friday, two days before December)
StartDays == {19780, 19873, 20056}

\* a text cell
TextOf(name) == [k |-> "text", v |-> name]

\* the strings of the frames' text cells, in the order Python sorts them
TextOrder ==
    <<"Extreme Risk", "Good", "High Risk", "Low Risk", "Moderate", "Moderate Risk",
      "Poor", "Satisfactory", "Severe", "Very High Risk", "Very Poor",
      "monsoon", "post_monsoon", "simulated_for_demo", "spring", "unknown", "winter">>

TextRank(text) == CHOOSE i \in DOMAIN TextOrder : TextOrder[i] = text.v

\* the fill value 'unknown' of an object column without a value
Unknown == TextOf("unknown")

\* dtypes of a file's columns: data_source is text, the others are numbers
DtypesOf(columns) ==
    [c \in Range(columns) |-> IF c = "data_source" THEN "object" ELSE "float64"]

\* mumbai_aqi_estimation.csv, one row per date from `first` on
AqiFile(a, first) ==
    [columns |-> <<"aqi_estimated", "data_source">>,
     dtypes |-> DtypesOf(<<"aqi_estimated", "data_source">>),
     rows |-> [d \in first..MaxPrepDates |->
                 [aqi_estimated |-> Num(5000 * ((a + 4 * d) % (MaxAqiSteps + 1))),
                  data_source |-> TextOf("simulated_for_demo")]]]

\* mumbai_flood_risk.csv
FloodFile(f, first) ==
    [columns |-> <<"flood_risk_score", "data_source">>,
     dtypes |-> DtypesOf(<<"flood_risk_score", "data_source">>),
     rows |-> [d \in first..MaxPrepDates |->
                 [flood_risk_score |-> Num(1000 * ((f + 3 * d) % (MaxFloodSteps + 1))),
                  data_source |-> TextOf("simulated_for_demo")]]]

\* mumbai_urban_patterns.csv
UrbanFile(first) ==
    [columns |-> <<"radiance_nw_cm2_sr", "data_source">>,
     dtypes |-> DtypesOf(<<"radiance_nw_cm2_sr", "data_source">>),
     rows |-> [d \in first..MaxPrepDates |->
                 [radiance_nw_cm2_sr |-> Num(1000 + 200 * d),
                  data_source |-> TextOf("simulated_for_demo")]]]

\* mumbai_heat_index.csv: heat_index_f is heat_index_c in Fahrenheit
HeatFile(h, first) ==
    [columns |-> <<"T2M", "heat_index_c", "heat_index_f">>,
     dtypes |-> DtypesOf(<<"T2M", "heat_index_c", "heat_index_f">>),
     rows |-> [d \in first..MaxPrepDates |->
                 LET c == 20 + 5 * ((h + d) % (MaxHeatSteps + 1))
                 IN [T2M |-> Num(100 * (c - 2)),
                     heat_index_c |-> Num(100 * c),
                     heat_index_f |-> Num(180 * c + 3200)]]]

\* nasa_power.csv
PowerFile(first) ==
    [columns |-> <<"T2M", "RH2M">>,
     dtypes |-> DtypesOf(<<"T2M", "RH2M">>),
     rows |-> [d \in first..MaxPrepDates |->
                 [T2M |-> Num(2600 + 200 * d), RH2M |-> Num(6000 + 400 * d)]]]

\* the files whose first date is the second one
LateFiles == {{}, {"aqi", "flood"}, {"heat", "power"}, {"urban"}}

First(name, late) == IF name \in late THEN 2 ELSE 1

\* one cell of the last date that holds no finite value, or none
BadCells ==
    {[file |-> "none", col |-> "", value |-> NaN]}
    \cup {[file |-> p[1], col |-> p[2], value |-> v] :
             p \in {<<"aqi", "aqi_estimated">>, <<"flood", "flood_risk_score">>,
                    <<"heat", "heat_index_c">>},
             v \in {NaN, PosInf, NegInf}}
    \cup {[file |-> "aqi", col |-> "data_source", value |-> NaN]}

Spoiled(ds, bad) ==
    IF bad.file = "none" THEN ds
    ELSE [ds EXCEPT ![bad.file].rows[MaxPrepDates][bad.col] = bad.value]

\* the file with its rows on the dates from `start` on
OnDates(file, start) ==
    [file EXCEPT !.rows = [date \in {start + d - 1 : d \in DOMAIN file.rows} |->
                              file.rows[date - start + 1]]]

\* DataFrame.merge(right, on='date', suffixes=('', suffix), how='outer'):
\* a column of the right frame whose name the left frame has takes the
\* suffix; a date one side lacks has NaN in that side's columns
merge(left, right, suffix) ==
    LET shared == DOMAIN left.dtypes \cap DOMAIN right.dtypes
        renamed(c) == IF c \in shared THEN c \o suffix ELSE c
        columns == left.columns \o [i \in DOMAIN right.columns |-> renamed(right.columns[i])]
        origin(c) == CHOOSE r \in DOMAIN right.dtypes : renamed(r) = c
        dates == DOMAIN left.rows \cup DOMAIN right.rows
        cell(side, d, c) == IF d \in DOMAIN side.rows THEN side.rows[d][c] ELSE NaN
    IN [columns |-> columns,
        dtypes |-> [c \in Range(columns) |->
                      IF c \in DOMAIN left.dtypes THEN left.dtypes[c]
                      ELSE right.dtypes[origin(c)]],
        rows |-> [d \in dates |->
                    [c \in Range(columns) |->
                        IF c \in DOMAIN left.dtypes THEN cell(left, d, c)
                        ELSE cell(right, d, origin(c))]]]

\* sort_values('date') of a set of dates
RECURSIVE SortedByDate(_)
SortedByDate(dates) ==
    IF dates = {} THEN <<>>
    ELSE LET first == CHOOSE d \in dates : \A e \in dates : d <= e
         IN <<first>> \o SortedByDate(dates \ {first})

\* replace([np.inf, -np.inf], np.nan)
ReplaceInf(x) == IF x.k \in {"posinf", "neginf"} THEN NaN ELSE x

\* Series.mode()[0], or 'unknown' when the column has no value
mode(cells) ==
    LET present == {cells[i] : i \in {j \in DOMAIN cells : cells[j].k # "nan"}}
        count(v) == Cardinality({i \in DOMAIN cells : cells[i] = v})
    IN IF present = {} THEN Unknown
       ELSE CHOOSE v \in present :
               \A w \in present :
                   count(v) > count(w) \/ (count(v) = count(w) /\ TextRank(v) <= TextRank(w))

\* _clean_master_dataset: the merged names are distinct, so no column is
\* dropped; rows in date order; infinities become NaN; a NaN of a numeric
\* column becomes the column's median (0 without one), a NaN of an object
\* column its mode
MumbaiPulseDataProcessor_clean_master_dataset(df) ==
    LET dates == SortedByDate(DOMAIN df.rows)
        column(c) == [i \in DOMAIN dates |-> ReplaceInf(df.rows[dates[i]][c])]
        filled(c) ==
            IF df.dtypes[c] = "object" THEN fillna(column(c), mode(column(c)))
            ELSE LET median_val == median(column(c))
                 IN fillna(column(c), IF median_val = NaN THEN Num(0) ELSE median_val)
    IN [columns |-> df.columns,
        dtypes |-> df.dtypes,
        rows |-> [i \in DOMAIN dates |->
                    [date |-> dates[i],
                     cells |-> [c \in DOMAIN df.dtypes |-> filled(c)[i]]]]]

\* create_master_dataset: the aqi frame outer-merged with the flood, urban,
\* heat and power frames, then cleaned
create_master_dataset(ds) ==
    MumbaiPulseDataProcessor_clean_master_dataset(
        merge(merge(merge(merge(ds.aqi, ds.flood, "_flood"), ds.urban, "_urban"),
                    ds.heat, "_heat"),
              ds.power, "_power"))

\* a dict with the entries of b added
Merge(a, b) ==
    [c \in DOMAIN a \cup DOMAIN b |-> IF c \in DOMAIN b THEN b[c] ELSE a[c]]

\* Timestamp: the year, month and day of a day number in the proleptic
\* Gregorian calendar
Timestamp(date) ==
    LET z == date + 719468
        era == z \div 146097
        doe == z - era * 146097
        yoe == (doe - doe \div 1460 + doe \div 36524 - doe \div 146096) \div 365
        doy == doe - (365 * yoe + yoe \div 4 - yoe \div 100)
        mp == (5 * doy + 2) \div 153
        m == IF mp < 10 THEN mp + 3 ELSE mp - 9
    IN [year |-> yoe + era * 400 + (IF m <= 2 THEN 1 ELSE 0),
        month |-> m,
        day |-> doy - (153 * mp + 2) \div 5 + 1]

is_leap_year(y) == y % 4 = 0 /\ (y % 100 # 0 \/ y % 400 = 0)

\* the days of a common year before each month
DaysBeforeMonth == <<0, 31, 59, 90, 120, 151, 181, 212, 243, 273, 304, 334>>

\* Series.dt.dayofyear, from 1
dt_dayofyear(date) ==
    LET t == Timestamp(date)
    IN DaysBeforeMonth[t.month] + t.day
          + (IF t.month > 2 /\ is_leap_year(t.year) THEN 1 ELSE 0)

\* Series.dt.month
dt_month(date) == Timestamp(date).month

\* Series.dt.dayofweek: Monday is 0; 1970-01-01 was a Thursday
dt_dayofweek(date) == (date + 3) % 7

\* the dict df['month'] is mapped through
SeasonOf(m) ==
    IF m \in {12, 1, 2} THEN "winter"
    ELSE IF m \in {3, 4, 5} THEN "spring"
    ELSE IF m \in {6, 7, 8, 9} THEN "monsoon"
    ELSE "post_monsoon"

\* df[c]
Column(df, c) == [i \in DOMAIN df.rows |-> df.rows[i].cells[c]]

\* one assignment df[name] = cells
Assignment(name, dtype, cells) == [name |-> name, dtype |-> dtype, cells |-> cells]

\* the frame after the assignments, each to a name of its own: a column the
\* frame has is overwritten where it stands, a new one is appended
Assign(df, assignments) ==
    LET names == [j \in DOMAIN assignments |-> assignments[j].name]
        IsNew(c) == c \notin DOMAIN df.dtypes
        of(c) == assignments[CHOOSE j \in DOMAIN assignments : names[j] = c]
        all == DOMAIN df.dtypes \cup Range(names)
    IN [columns |-> df.columns \o SelectSeq(names, IsNew),
        dtypes |-> [c \in all |-> IF c \in Range(names) THEN of(c).dtype ELSE df.dtypes[c]],
        rows |-> [i \in DOMAIN df.rows |->
                    [date |-> df.rows[i].date,
                     cells |-> [c \in all |->
                                  IF c \in Range(names) THEN of(c).cells[i]
                                  ELSE df.rows[i].cells[c]]]]]

\* the product of two cells, NaN if either is
Times(x, y) == IF x.k = "num" /\ y.k = "num" THEN Num(x.v * y.v) ELSE NaN

\* df[a] * df[b]
Product(df, a, b) == [i \in DOMAIN df.rows |-> Times(df.rows[i].cells[a], df.rows[i].cells[b])]

\* the heat term of the index: df['heat_index'] if that column exists, else 0
HeatTerm(row) == IF "heat_index" \in DOMAIN row THEN row["heat_index"] ELSE Num(0)

\* df['aqi_estimated'] * 0.3 + df['flood_risk_score'] * 0.3 + heat * 0.4,
\* in thousandths
StressIndex(row) ==
    LET terms == <<row["aqi_estimated"], row["flood_risk_score"], HeatTerm(row)>>
    IN IF \A j \in 1..3 : terms[j].k = "num"
       THEN Num(terms[1].v * 3 + terms[2].v * 3 + terms[3].v * 4)
       ELSE NaN

\* Series.shift(periods): the first rows have no earlier row
shift(cells, periods) ==
    [i \in DOMAIN cells |-> IF i > periods THEN cells[i - periods] ELSE NaN]

\* the values of the 7-row window that ends at row i, gaps left out
Window(cells, i) ==
    LET rows == SelectSeq([j \in 1..i |-> j], LAMBDA j : j > i - 7 /\ cells[j].k = "num")
    IN [j \in DOMAIN rows |-> cells[rows[j]].v]

\* rolling(window=7, min_periods=1).mean()
rolling_mean(cells) ==
    [i \in DOMAIN cells |->
        LET w == Window(cells, i)
        IN IF Len(w) < 1 THEN NaN ELSE Num(SumOf(w) \div Len(w))]

\* the largest s with s * s <= n
RECURSIVE Isqrt(_)
Isqrt(n) ==
    IF n < 2 THEN n
    ELSE LET s == 2 * Isqrt(n \div 4)
         IN IF (s + 1) * (s + 1) <= n THEN s + 1 ELSE s

\* the squared differences of all pairs of w, summed
RECURSIVE PairSquares(_)
PairSquares(w) ==
    IF Len(w) < 2 THEN 0
    ELSE SumOf([j \in 1..(Len(w) - 1) |-> (w[1] - w[j + 1]) * (w[1] - w[j + 1])])
            + PairSquares(Tail(w))

\* the sample standard deviation (ddof=1) of w in hundredths, w in tenths:
\* the root of PairSquares(w) / (k (k - 1)), its whole tenths first and
\* then its next digit
SampleStd(w) ==
    LET k == Len(w)
        den == k * (k - 1)
        squares == PairSquares(w)
        tenths == Isqrt(squares \div den)
        rest == squares - tenths * tenths * den
        digit == CHOOSE d \in 0..9 :
                    /\ (20 * tenths * d + d * d) * den <= 100 * rest
                    /\ d < 9 => (20 * tenths * (d + 1) + (d + 1) * (d + 1)) * den > 100 * rest
    IN 10 * tenths + digit

\* the units of a column that make a tenth
UnitsPerTenth(c) == IF c = "environmental_stress_index" THEN 100 ELSE 10

\* rolling(window=7, min_periods=1).std(): NaN for a window of one value
rolling_std(cells, per_tenth) ==
    [i \in DOMAIN cells |->
        LET w == Window(cells, i)
        IN IF Len(w) < 2 THEN NaN
           ELSE Num(SampleStd([j \in DOMAIN w |-> w[j] \div per_tenth]) * (per_tenth \div 10))]

\* Series.map(levels): a value the dict lacks becomes NaN
map(cells, levels) ==
    [i \in DOMAIN cells |->
        IF cells[i].k = "text" /\ cells[i].v \in DOMAIN levels
        THEN Num(100 * levels[cells[i].v])
        ELSE NaN]

\* the dtype of a mapped column: integers unless a NaN makes it float
MappedDtype(cells) ==
    IF \E i \in DOMAIN cells : cells[i].k = "nan" THEN "float64" ELSE "int64"

AqiRiskLevels ==
    [c \in {"Good", "Satisfactory", "Moderate", "Poor", "Very Poor", "Severe"} |->
        CASE c = "Good" -> 1 [] c = "Satisfactory" -> 2 [] c = "Moderate" -> 3
          [] c = "Poor" -> 4 [] c = "Very Poor" -> 5 [] c = "Severe" -> 6]

FloodRiskLevels ==
    [c \in {"Low Risk", "Moderate Risk", "High Risk", "Very High Risk", "Extreme Risk"} |->
        CASE c = "Low Risk" -> 1 [] c = "Moderate Risk" -> 2 [] c = "High Risk" -> 3
          [] c = "Very High Risk" -> 4 [] c = "Extreme Risk" -> 5]

\* the lag loop: {col}_lag1 and {col}_lag3 for each column the frame has
RECURSIVE Lags(_, _)
Lags(df, lag_columns) ==
    IF lag_columns = <<>> THEN <<>>
    ELSE LET col == Head(lag_columns)
         IN (IF col \in DOMAIN df.dtypes
             THEN <<Assignment(col \o "_lag1", "float64", shift(Column(df, col), 1)),
                    Assignment(col \o "_lag3", "float64", shift(Column(df, col), 3))>>
             ELSE <<>>)
            \o Lags(df, Tail(lag_columns))

\* the rolling loop: {col}_7day_avg and {col}_7day_std
RECURSIVE Rolling(_, _)
Rolling(df, rolling_columns) ==
    IF rolling_columns = <<>> THEN <<>>
    ELSE LET col == Head(rolling_columns)
         IN (IF col \in DOMAIN df.dtypes
             THEN <<Assignment(col \o "_7day_avg", "float64",
                               rolling_mean(Column(df, col))),
                    Assignment(col \o "_7day_std", "float64",
                               rolling_std(Column(df, col), UnitsPerTenth(col)))>>
             ELSE <<>>)
            \o Rolling(df, Tail(rolling_columns))

\* engineer_features: the temporal columns and the composite indices, then
\* the lag and rolling columns and the risk levels made from them, each
\* added when the columns it is made from exist
engineer_features(df) ==
    LET Has(c) == c \in DOMAIN df.dtypes
        rows == DOMAIN df.rows
        day_of_year == [i \in rows |-> Num(100 * dt_dayofyear(df.rows[i].date))]
        month == [i \in rows |-> Num(100 * dt_month(df.rows[i].date))]
        day_of_week == [i \in rows |-> Num(100 * dt_dayofweek(df.rows[i].date))]
        Among(cells, values) ==
            [i \in rows |-> Num(IF cells[i].v \in values THEN 100 ELSE 0)]
        composites ==
            Assign(df,
                <<Assignment("day_of_year", "int32", day_of_year),
                  Assignment("month", "int32", month),
                  Assignment("day_of_week", "int32", day_of_week),
                  Assignment("is_weekend", "int64", Among(day_of_week, {500, 600})),
                  Assignment("is_monsoon", "int64", Among(month, {600, 700, 800, 900})),
                  Assignment("season", "object",
                             [i \in rows |-> TextOf(SeasonOf(month[i].v \div 100))])>>
                \o (IF Has("aqi_estimated") /\ Has("flood_risk_score")
                    THEN <<Assignment("environmental_stress_index", "float64",
                                      [i \in rows |-> StressIndex(df.rows[i].cells)])>>
                    ELSE <<>>)
                \o (IF Has("aod_550nm") /\ Has("no2_column_density")
                    THEN <<Assignment("air_quality_composite", "float64",
                                      Product(df, "aod_550nm", "no2_column_density"))>>
                    ELSE <<>>)
                \o (IF Has("soil_moisture") /\ Has("precipitation_mm")
                    THEN <<Assignment("water_stress_index", "float64",
                                      Product(df, "soil_moisture", "precipitation_mm"))>>
                    ELSE <<>>)
                \o (IF Has("radiance_nw_cm2_sr") /\ Has("aqi_estimated")
                    THEN <<Assignment("urban_environmental_load", "float64",
                                      Product(df, "radiance_nw_cm2_sr", "aqi_estimated"))>>
                    ELSE <<>>))
        lag_columns == <<"aqi_estimated", "flood_risk_score">>
                          \o (IF Has("heat_index") THEN <<"heat_index">> ELSE <<>>)
        aqi_risk_level == map(Column(df, "aqi_category"), AqiRiskLevels)
        flood_risk_level == map(Column(df, "risk_category"), FloodRiskLevels)
    IN Assign(composites,
           Lags(composites, lag_columns)
           \o Rolling(composites, <<"aqi_estimated", "flood_risk_score",
                                    "environmental_stress_index">>)
           \o (IF Has("aqi_category")
               THEN <<Assignment("aqi_risk_level", MappedDtype(aqi_risk_level),
                                 aqi_risk_level)>>
               ELSE <<>>)
           \o (IF Has("risk_category")
               THEN <<Assignment("flood_risk_level", MappedDtype(flood_risk_level),
                                 flood_risk_level)>>
               ELSE <<>>))

\* exclude_cols of prepare_ml_datasets
exclude_cols == {"date", "aqi_category", "risk_category", "activity_level", "data_source"}

\* feature_cols: the columns outside exclude_cols, in column order
FeatureCols(df) ==
    LET Kept(c) == c \notin exclude_cols
    IN SelectSeq(df.columns, Kept)

\* df[feature_cols].select_dtypes(include=['object']).columns
CategoricalCols(df) ==
    LET IsObject(c) == df.dtypes[c] = "object"
    IN SelectSeq(FeatureCols(df), IsObject)

\* LabelEncoder.fit: classes_ is the sorted distinct texts of the column
RECURSIVE SortedTexts(_)
SortedTexts(texts) ==
    IF texts = {} THEN <<>>
    ELSE LET first == CHOOSE t \in texts : \A u \in texts : TextRank(t) <= TextRank(u)
         IN <<first>> \o SortedTexts(texts \ {first})

Classes(df, c) == SortedTexts({df.rows[i].cells[c] : i \in DOMAIN df.rows})

\* LabelEncoder.transform: the position of the text in classes_, from 0
CodeOf(classes, text) ==
    Num(100 * ((CHOOSE j \in DOMAIN classes : classes[j] = text) - 1))

\* self.label_encoders after the loop: a column without an encoder gets one
\* fitted on it
EncodersAfter(encoders, df) ==
    [c \in DOMAIN encoders \cup Range(CategoricalCols(df)) |->
        IF c \in DOMAIN encoders THEN encoders[c] ELSE Classes(df, c)]

\* prepare_ml_datasets, its effect on the frame handed in: every object
\* column among the feature columns is overwritten with its label codes
prepare_ml_datasets(encoders, df) ==
    LET categorical == Range(CategoricalCols(df))
        after == EncodersAfter(encoders, df)
    IN [columns |-> df.columns,
        dtypes |-> [c \in DOMAIN df.dtypes |->
                      IF c \in categorical THEN "int64" ELSE df.dtypes[c]],
        rows |-> [i \in DOMAIN df.rows |->
                    [date |-> df.rows[i].date,
                     cells |-> [c \in DOMAIN df.dtypes |->
                                  IF c \in categorical
                                  THEN CodeOf(after[c], df.rows[i].cells[c])
                                  ELSE df.rows[i].cells[c]]]]]

NoPrepFrame == [columns |-> <<>>, dtypes |-> EmptyDict, rows |-> <<>>]

PrepInit ==
    /\ \E a \in 0..MaxAqiSteps, f \in 0..MaxFloodSteps, h \in 0..MaxHeatSteps,
          late \in LateFiles, bad \in BadCells, start \in StartDays :
          LET files == Spoiled([aqi |-> AqiFile(a, First("aqi", late)),
                                flood |-> FloodFile(f, First("flood", late)),
                                urban |-> UrbanFile(First("urban", late)),
                                heat |-> HeatFile(h, First("heat", late)),
                                power |-> PowerFile(First("power", late))], bad)
          IN datasets = [name \in DOMAIN files |-> OnDates(files[name], start)]
    /\ prepared_df = NoPrepFrame
    /\ prep_label_encoders = EmptyDict
    /\ prep_feature_names = <<>>
    /\ prep_pc = "loaded"

PrepIdle ==
    /\ datasets = EmptyDict
    /\ prepared_df = NoPrepFrame
    /\ prep_label_encoders = EmptyDict
    /\ prep_feature_names = <<>>
    /\ prep_pc = "idle"

\* main: master_df = processor.create_master_dataset(datasets)
CreateMasterDataset ==
    /\ prep_pc = "loaded"
    /\ prepared_df' = create_master_dataset(datasets)
    /\ prep_pc' = "merged"
    /\ UNCHANGED <<datasets, prep_label_encoders, prep_feature_names>>

\* main: master_df = processor.engineer_features(master_df)
EngineerFeatures ==
    /\ prep_pc = "merged"
    /\ prepared_df' = engineer_features(prepared_df)
    /\ prep_pc' = "engineered"
    /\ UNCHANGED <<datasets, prep_label_encoders, prep_feature_names>>

\* main: features, targets, dates = processor.prepare_ml_datasets(master_df),
\* which works on master_df itself
PrepareMlDatasets ==
    /\ prep_pc = "engineered"
    /\ prep_label_encoders' = EncodersAfter(prep_label_encoders, prepared_df)
    /\ prepared_df' = prepare_ml_datasets(prep_label_encoders, prepared_df)
    /\ prep_feature_names' = FeatureCols(prepared_df)
    /\ prep_pc' = "prepared"
    /\ UNCHANGED datasets

----------------------------------------------------------------------------
(* The backend's heat index: real_time_data.py and real_data_loader.py *)
(* Units as in the processing script: temp_f times five, results in     *)
(* 1/10000 of a degree.                                                  *)

\* RealTimeDataFetcher._calculate_heat_index(temp_c, humidity): below 80 F
\* the Celsius temperature itself, else the Rothfusz value in Celsius;
\* NaN < 80 is False and the polynomial of a NaN is NaN
RealTimeDataFetcher_calculate_heat_index(temp_c, humidity) ==
    LET tf == temp_f(temp_c)
    IN IF temp_c.k = "nan" THEN NaN
       ELSE IF tf.v < 5 * 80 THEN Num(10000 * temp_c.v)
       ELSE IF humidity.k = "nan" THEN NaN
       ELSE heat_index_c(Num(rothfusz(tf.v, humidity.v)))

\* RealNASADataLoader._calculate_heat_index(temp_c, humidity)
RealNASADataLoader_calculate_heat_index(temp_c, humidity) ==
    LET tf == temp_f(temp_c)
    IN IF temp_c.k = "nan" THEN NaN
       ELSE IF tf.v < 5 * 80 THEN Num(10000 * temp_c.v)
       ELSE IF humidity.k = "nan" THEN NaN
       ELSE heat_index_c(Num(rothfusz(tf.v, humidity.v)))

\* the branch a function took on an input
BackendBranch(temp_c) ==
    IF temp_c.k = "num" /\ temp_f(temp_c).v < 5 * 80 THEN "simple" ELSE "rothfusz"

ScriptBranch(temp_c, humidity) ==
    IF temp_c.k = "num" /\ humidity.k = "num"
       /\ simple_hi(temp_f(temp_c).v, humidity.v) < 800000
    THEN "simple" ELSE "rothfusz"

\* the readings: a humidity is a percentage or NaN
BackendHeatInit ==
    backend_heat \in [temp_c : TempValues, humidity : HumidityValues \ {Num(-999)},
                      fetcher : {NotComputed}, loader : {NotComputed},
                      script : {NotComputed}, done : {FALSE}]

BackendHeatIdle ==
    backend_heat = [temp_c |-> Num(0), humidity |-> Num(0), fetcher |-> NotComputed,
                    loader |-> NotComputed, script |-> NotComputed, done |-> TRUE]

\* one reading through the two backend functions and through the script's
\* calculate_heat_index with the conversions around it
CalculateBackendHeatIndex ==
    /\ ~backend_heat.done
    /\ backend_heat' =
          [backend_heat EXCEPT
              !.fetcher = RealTimeDataFetcher_calculate_heat_index(
                              backend_heat.temp_c, backend_heat.humidity),
              !.loader = RealNASADataLoader_calculate_heat_index(
                             backend_heat.temp_c, backend_heat.humidity),
              !.script = heat_index_c(calculate_heat_index(
                             temp_f(backend_heat.temp_c), backend_heat.humidity)),
              !.done = TRUE]
----------------------------------------------------------------------------
(* Specifications *)

vars == <<sanitizeVars, dpVars, storeVars, mlVars, callVars, trainVars, metricVars, prepVars, batchVars, rowVars, injVars, loadVars, backendVars>>

RowIdle == AqiRowIdle /\ FloodRowIdle /\ InjIdle /\ LoadIdle /\ BackendHeatIdle

MetricIdle == AqiIdle /\ HeatIdle /\ FloodIdle /\ RowIdle

InferenceIdle == StoreIdle /\ MlInit /\ CallIdle /\ TrainerIdle /\ BatchIdle

InitSanitize == SanitizeInit /\ DpIdle /\ InferenceIdle /\ MetricIdle /\ PrepIdle

NextSanitize ==
    CleanNasaData /\ UNCHANGED <<backendVars, loadVars, injVars, rowVars, metricVars, prepVars, batchVars, dpVars, storeVars, mlVars, callVars, trainVars>>

SpecSanitize == InitSanitize /\ [][NextSanitize]_vars

Init == DpInit /\ SanitizeIdle /\ InferenceIdle /\ MetricIdle /\ PrepIdle

Next ==
    \/ RefreshData /\ UNCHANGED <<backendVars, loadVars, injVars, rowVars, metricVars, prepVars, batchVars, sanitizeVars, storeVars, mlVars, callVars, trainVars>>
    \/ GetLatestData /\ UNCHANGED <<backendVars, loadVars, injVars, rowVars, metricVars, prepVars, batchVars, sanitizeVars, storeVars, mlVars, callVars, trainVars>>
    \/ GetRecentData /\ UNCHANGED <<backendVars, loadVars, injVars, rowVars, metricVars, prepVars, batchVars, sanitizeVars, storeVars, mlVars, callVars, trainVars>>

Spec == Init /\ [][Next]_vars

InitInference ==
    StoreInit /\ MlInit /\ CallInit /\ TrainerIdle /\ SanitizeIdle /\ DpIdle /\ MetricIdle /\ PrepIdle /\ BatchIdle

NextInference ==
    \/ LoadAllModels /\ UNCHANGED <<backendVars, loadVars, injVars, rowVars, metricVars, prepVars, batchVars, sanitizeVars, dpVars, trainVars>>
    \/ LoadAllModelsFails /\ UNCHANGED <<backendVars, loadVars, injVars, rowVars, metricVars, prepVars, batchVars, sanitizeVars, dpVars, trainVars>>
    \/ DetectAnomalies /\ UNCHANGED <<backendVars, loadVars, injVars, rowVars, metricVars, prepVars, batchVars, sanitizeVars, dpVars, trainVars>>

SpecInference == InitInference /\ [][NextInference]_vars

InitPublish ==
    /\ StoreInit /\ PublisherInit /\ MlInit /\ CallIdle /\ SanitizeIdle /\ DpIdle
    /\ MetricIdle /\ PrepIdle /\ BatchIdle

NextPublish ==
    \/ TruncateBestModel /\ UNCHANGED <<backendVars, loadVars, injVars, rowVars, metricVars, prepVars, batchVars, sanitizeVars, dpVars, mlVars, callVars>>
    \/ SaveBestModel /\ UNCHANGED <<backendVars, loadVars, injVars, rowVars, metricVars, prepVars, batchVars, sanitizeVars, dpVars, mlVars, callVars>>
    \/ TruncateScaler /\ UNCHANGED <<backendVars, loadVars, injVars, rowVars, metricVars, prepVars, batchVars, sanitizeVars, dpVars, mlVars, callVars>>
    \/ SaveScaler /\ UNCHANGED <<backendVars, loadVars, injVars, rowVars, metricVars, prepVars, batchVars, sanitizeVars, dpVars, mlVars, callVars>>
    \/ TruncateMetadata /\ UNCHANGED <<backendVars, loadVars, injVars, rowVars, metricVars, prepVars, batchVars, sanitizeVars, dpVars, mlVars, callVars>>
    \/ SaveMetadata /\ UNCHANGED <<backendVars, loadVars, injVars, rowVars, metricVars, prepVars, batchVars, sanitizeVars, dpVars, mlVars, callVars>>
    \/ StartNextRun /\ UNCHANGED <<backendVars, loadVars, injVars, rowVars, metricVars, prepVars, batchVars, sanitizeVars, dpVars, mlVars, callVars>>
    \/ LoadOtherFile /\ UNCHANGED <<backendVars, loadVars, injVars, rowVars, metricVars, prepVars, batchVars, sanitizeVars, dpVars, storeVars, callVars, trainVars>>
    \/ LoadDetectorFile /\ UNCHANGED <<backendVars, loadVars, injVars, rowVars, metricVars, prepVars, batchVars, sanitizeVars, dpVars, storeVars, callVars, trainVars>>
    \/ LoadScalerFile /\ UNCHANGED <<backendVars, loadVars, injVars, rowVars, metricVars, prepVars, batchVars, sanitizeVars, dpVars, storeVars, callVars, trainVars>>
    \/ LoadMetadataFile /\ UNCHANGED <<backendVars, loadVars, injVars, rowVars, metricVars, prepVars, batchVars, sanitizeVars, dpVars, storeVars, callVars, trainVars>>
    \/ LoadFileFails /\ UNCHANGED <<backendVars, loadVars, injVars, rowVars, metricVars, prepVars, batchVars, sanitizeVars, dpVars, storeVars, callVars, trainVars>>

SpecPublish == InitPublish /\ [][NextPublish]_vars

InitTrain ==
    TrainInit /\ StoreIdle /\ MlInit /\ CallIdle /\ SanitizeIdle /\ DpIdle /\ MetricIdle /\ PrepIdle /\ BatchIdle

NextTrain ==
    \/ LoadData /\ UNCHANGED <<backendVars, loadVars, injVars, rowVars, metricVars, prepVars, batchVars, sanitizeVars, dpVars, mlVars, callVars>>
    \/ LoadDataFails /\ UNCHANGED <<backendVars, loadVars, injVars, rowVars, metricVars, prepVars, batchVars, sanitizeVars, dpVars, mlVars, callVars>>
    \/ CreateSyntheticAnomalies /\ UNCHANGED <<backendVars, loadVars, injVars, rowVars, metricVars, prepVars, batchVars, sanitizeVars, dpVars, mlVars, callVars>>
    \/ TrainModels /\ UNCHANGED <<backendVars, loadVars, injVars, rowVars, metricVars, prepVars, batchVars, sanitizeVars, dpVars, mlVars, callVars>>
    \/ TrainModelsFitFails /\ UNCHANGED <<backendVars, loadVars, injVars, rowVars, metricVars, prepVars, batchVars, sanitizeVars, dpVars, mlVars, callVars>>
    \/ EvaluateModels /\ UNCHANGED <<backendVars, loadVars, injVars, rowVars, metricVars, prepVars, batchVars, sanitizeVars, dpVars, mlVars, callVars>>
    \/ DetectEnvironmentalAnomalies /\ UNCHANGED <<backendVars, loadVars, injVars, rowVars, metricVars, prepVars, batchVars, sanitizeVars, dpVars, mlVars, callVars>>
    \/ SaveModels /\ UNCHANGED <<backendVars, loadVars, injVars, rowVars, metricVars, prepVars, batchVars, sanitizeVars, dpVars, mlVars, callVars>>

SpecTrain == InitTrain /\ [][NextTrain]_vars

RestIdle == SanitizeIdle /\ DpIdle /\ InferenceIdle /\ PrepIdle /\ RowIdle

restVars == <<sanitizeVars, dpVars, storeVars, mlVars, callVars, trainVars, prepVars, batchVars, rowVars, injVars, loadVars, backendVars>>

InitAqi == AqiInit /\ HeatIdle /\ FloodIdle /\ RestIdle

NextAqi == CalculateAqi /\ UNCHANGED restVars

SpecAqi == InitAqi /\ [][NextAqi]_vars

InitHeat == HeatInit /\ AqiIdle /\ FloodIdle /\ RestIdle

NextHeat == ProcessHeatIndex /\ UNCHANGED restVars

SpecHeat == InitHeat /\ [][NextHeat]_vars

InitFlood == FloodInit /\ AqiIdle /\ HeatIdle /\ RestIdle

NextFlood == CalculateFloodRisk /\ UNCHANGED restVars

SpecFlood == InitFlood /\ [][NextFlood]_vars

InitPrep == PrepInit /\ MetricIdle /\ SanitizeIdle /\ DpIdle /\ InferenceIdle

NextPrep ==
    \/ CreateMasterDataset /\ UNCHANGED <<backendVars, loadVars, injVars, rowVars, sanitizeVars, dpVars, storeVars, mlVars, callVars, trainVars, metricVars, batchVars>>
    \/ EngineerFeatures /\ UNCHANGED <<backendVars, loadVars, injVars, rowVars, sanitizeVars, dpVars, storeVars, mlVars, callVars, trainVars, metricVars, batchVars>>
    \/ PrepareMlDatasets /\ UNCHANGED <<backendVars, loadVars, injVars, rowVars, sanitizeVars, dpVars, storeVars, mlVars, callVars, trainVars, metricVars, batchVars>>

SpecPrep == InitPrep /\ [][NextPrep]_vars

InitBatch ==
    StoreInitOf({OtherFiles}) /\ MlInit /\ CallIdle /\ BatchInit /\ TrainerIdle /\ SanitizeIdle /\ DpIdle
        /\ MetricIdle /\ PrepIdle

NextBatch ==
    \/ LoadAllModels /\ UNCHANGED <<backendVars, loadVars, injVars, rowVars, sanitizeVars, dpVars, trainVars, metricVars, prepVars, batchVars>>
    \/ LoadAllModelsFails /\ UNCHANGED <<backendVars, loadVars, injVars, rowVars, sanitizeVars, dpVars, trainVars, metricVars, prepVars, batchVars>>
    \/ DetectComprehensiveAnomalies /\ UNCHANGED <<backendVars, loadVars, injVars, rowVars, sanitizeVars, dpVars, trainVars, metricVars, prepVars>>

SpecBatch == InitBatch /\ [][NextBatch]_vars

InitAqiRows == AqiRowInit /\ FloodRowIdle /\ SanitizeIdle /\ DpIdle /\ InferenceIdle
                 /\ PrepIdle /\ AqiIdle /\ HeatIdle /\ FloodIdle /\ InjIdle /\ LoadIdle /\ BackendHeatIdle

NextAqiRows ==
    \/ EstimatePm25 /\ UNCHANGED <<backendVars, loadVars, injVars, sanitizeVars, dpVars, storeVars, mlVars, callVars, trainVars, metricVars, prepVars, batchVars>>
    \/ AppendAqiRow /\ UNCHANGED <<backendVars, loadVars, injVars, sanitizeVars, dpVars, storeVars, mlVars, callVars, trainVars, metricVars, prepVars, batchVars>>

SpecAqiRows == InitAqiRows /\ [][NextAqiRows]_vars

InitFloodRows == FloodRowInit /\ AqiRowIdle /\ SanitizeIdle /\ DpIdle /\ InferenceIdle
                   /\ PrepIdle /\ AqiIdle /\ HeatIdle /\ FloodIdle /\ InjIdle /\ LoadIdle /\ BackendHeatIdle

NextFloodRows ==
    AppendFloodRow /\ UNCHANGED <<backendVars, loadVars, injVars, sanitizeVars, dpVars, storeVars, mlVars, callVars, trainVars, metricVars, prepVars, batchVars>>

SpecFloodRows == InitFloodRows /\ [][NextFloodRows]_vars

InjRestIdle == SanitizeIdle /\ DpIdle /\ InferenceIdle /\ PrepIdle /\ AqiIdle /\ HeatIdle
                 /\ FloodIdle /\ AqiRowIdle /\ FloodRowIdle

injRestVars == <<sanitizeVars, dpVars, storeVars, mlVars, callVars, trainVars, metricVars,
                 prepVars, batchVars, rowVars>>

InitInject == InjInitOf(InjShapes) /\ InjRestIdle /\ LoadIdle /\ BackendHeatIdle

NextInject == InjectSyntheticAnomalies /\ UNCHANGED <<backendVars, loadVars, injRestVars>>

SpecInject == InitInject /\ [][NextInject]_vars

InitRepeat == InjInitOf(RepeatShapes) /\ InjRestIdle /\ LoadIdle /\ BackendHeatIdle

NextRepeat ==
    \/ InjectSyntheticAnomalies /\ UNCHANGED <<backendVars, loadVars, injRestVars>>
    \/ TrainOnRows /\ UNCHANGED <<backendVars, loadVars, injRestVars>>
    \/ EvaluateOnRows /\ UNCHANGED <<backendVars, loadVars, injRestVars>>
    \/ RunAgain /\ UNCHANGED <<backendVars, loadVars, injRestVars>>

SpecRepeat == InitRepeat /\ [][NextRepeat]_vars

InitReadOnly ==
    /\ StoreInitOf({OtherFiles}) /\ MlInit /\ TrainerIdle /\ SanitizeIdle /\ DpIdle /\ MetricIdle /\ PrepIdle
    /\ \/ CallInit /\ BatchIdle /\ decision_value \in {-71, 30}
       \/ CallIdle /\ BatchInit
          /\ \A i \in DOMAIN data_list : data_list[i].decision \in {-71, 30}

NextReadOnly ==
    \/ LoadAllModels /\ UNCHANGED <<backendVars, loadVars, injVars, rowVars, metricVars, prepVars, batchVars, sanitizeVars, dpVars, trainVars>>
    \/ LoadAllModelsFails /\ UNCHANGED <<backendVars, loadVars, injVars, rowVars, metricVars, prepVars, batchVars, sanitizeVars, dpVars, trainVars>>
    \/ DetectAnomalies /\ UNCHANGED <<backendVars, loadVars, injVars, rowVars, metricVars, prepVars, batchVars, sanitizeVars, dpVars, trainVars>>
    \/ DetectComprehensiveAnomalies /\ UNCHANGED <<backendVars, loadVars, injVars, rowVars, sanitizeVars, dpVars, trainVars, metricVars, prepVars>>

SpecReadOnly == InitReadOnly /\ [][NextReadOnly]_vars

InitLoad == LoadInit /\ InjRestIdle /\ InjIdle /\ BackendHeatIdle

NextLoad == LoadCsv /\ UNCHANGED <<backendVars, injRestVars, injVars>>

SpecLoad == InitLoad /\ [][NextLoad]_vars

InitBackendHeat == BackendHeatInit /\ InjRestIdle /\ InjIdle /\ LoadIdle

NextBackendHeat == CalculateBackendHeatIndex /\ UNCHANGED <<injRestVars, injVars, loadVars>>

SpecBackendHeat == InitBackendHeat /\ [][NextBackendHeat]_vars

----------------------------------------------------------------------------
(* Claims *)

\* the values the sanitizer contract names as missing: NaN, +infinity,
\* -infinity, -999, -9999 and everything below -900
ContractMissing(value) ==
    value.k \in {"nan", "posinf", "neginf"}
        \/ (value.k = "num" /\ value.v < -90000)

ContractDefault(key) ==
    IF key \in DOMAIN replacements THEN Num(replacements[key]) ELSE Num(0)

\* C1: after _clean_nasa_data every field whose value was NaN, +infinity,
\* -infinity, -999, -9999 or below -900 holds the documented default of the
\* field, or 0.0 when the field is not in the table.
C1_SanitizerReplacesAllMissing ==
    clean_called =>
        \A key \in DOMAIN data_dict :
            ContractMissing(data_dict[key]) => cleaned_dict[key] = ContractDefault(key)

\* a numeric sentinel: -999, -9999 or anything below -900
IsSentinel(value) == value.k = "num" /\ value.v < -90000

\* C2: no record handed out by get_latest_data or get_recent_data holds a
\* sentinel (-999, -9999, below -900) in any column.
C2_NoSentinelServed ==
    last_call \in {"get_latest_data", "get_recent_data"} =>
        \A i \in 1..Len(served) :
            \A key \in DOMAIN served[i] : ~IsSentinel(served[i][key])

\* the keys of the request are exactly the persisted feature schema
SchemaMatches(data) ==
    "anomaly_detection" \in DOMAIN metadata
        /\ DOMAIN data = Range(metadata["anomaly_detection"].features)

\* C3: a detect_anomalies call whose row does not carry exactly the features
\* of the persisted schema is rejected with a FeatureMismatchError and
\* returns no AnomalyResult.
C3_MismatchRejected ==
    (called_at = "done" /\ response.path # "none" /\ ~SchemaMatches(request))
        => response.raised = "FeatureMismatchError"

\* the three files of model 4 as a reader that opens them in directory dir
\* finds them now
FilesIn(dir) == <<store_detector[dir], store_scaler[dir], store_metadata[dir]>>

\* C4: a retrained artifact replaces the old one atomically with respect to
\* readers: under every interleaving of save_models with the loader, the
\* detector, the scaler and the feature schema the loader holds were written
\* by one and the same training run, and the three files save_models
\* publishes are at every moment the whole artifact of one run, so that no
\* reader that opens them gets a partial artifact or a mix of old and new
\* parts.
C4_PublishedArtifactFromOneRun ==
    /\ ("anomaly_detector" \in DOMAIN models /\ "anomaly_scaler" \in DOMAIN scalers
           /\ "anomaly_detection" \in DOMAIN metadata) =>
           /\ models["anomaly_detector"].run = scalers["anomaly_scaler"].run
           /\ scalers["anomaly_scaler"].run = metadata["anomaly_detection"].run
    /\ LET published == FilesIn(model_dir)
       IN (\E i \in 1..3 : published[i].exists) =>
              /\ \A i \in 1..3 : Readable(published[i])
              /\ \A i, j \in 1..3 : published[i].obj.run = published[j].obj.run

\* position of an algorithm id in the fixed priority order
Priority(alg) == CHOOSE i \in 1..Len(Algorithms) : Algorithms[i] = alg

Evaluated == trainer.pc \in {"evaluated", "analyzed", "done"}

\* C5: the selected detector has the maximum F1 among the evaluated ones,
\* and among the detectors that tie on that maximum it is the first in the
\* order isolation_forest, one_class_svm, dbscan.
C5_BestIsFirstMaxF1 ==
    Evaluated =>
        /\ best_model_name \in DOMAIN results
        /\ \A m \in DOMAIN results :
              /\ ~RatioLess(results[best_model_name].f1_score, results[m].f1_score)
              /\ RatioEq(results[m].f1_score, results[best_model_name].f1_score)
                    => Priority(best_model_name) <= Priority(m)

\* C5 witness: one_class_svm and dbscan tie on a positive maximum F1 with
\* different confusion counts, isolation_forest is lower, one_class_svm wins
C5_Witness ==
    /\ Evaluated
    /\ best_model_name = "one_class_svm"
    /\ predictions["one_class_svm"] # predictions["dbscan"]
    /\ RatioEq(results["one_class_svm"].f1_score, results["dbscan"].f1_score)
    /\ RatioLess(results["isolation_forest"].f1_score, results["dbscan"].f1_score)
    /\ RatioLess(Ratio(0, 1), results["isolation_forest"].f1_score)

\* the breakpoint bands (pm_low, pm_high, aqi_low, aqi_high) of the contract
ClaimedBands ==
    { <<0, 30, 0, 50>>, <<31, 60, 51, 100>>, <<61, 90, 101, 200>>,
      <<91, 120, 201, 300>>, <<121, 250, 301, 400>>, <<251, 500, 401, 500>> }

\* C6: for a PM2.5 value inside a band the AQI is the linear interpolation
\* aqi_low + (aqi_high - aqi_low)*(pm25 - pm_low)/(pm_high - pm_low)
\* (here: its value in hundredths, rounded down; 45 gives 74.65..74.66),
\* every value above 500 gives 500, and the result always lies in [0,500].
C6_AqiInterpolation ==
    aqi_record.done =>
        LET pm == aqi_record.pm25
            aqi == aqi_record.aqi_estimated
        IN /\ aqi.k = "num" /\ 0 <= aqi.v /\ aqi.v <= 50000
           /\ ValGt(pm, 50000) => aqi = Num(50000)
           /\ \A b \in ClaimedBands :
                 (pm.k = "num" /\ 100 * b[1] <= pm.v /\ pm.v <= 100 * b[2]) =>
                    /\ (b[2] - b[1]) * (aqi.v - 100 * b[3])
                          <= (b[4] - b[3]) * (pm.v - 100 * b[1])
                    /\ (b[4] - b[3]) * (pm.v - 100 * b[1])
                          < (b[2] - b[1]) * (aqi.v - 100 * b[3] + 1)
           /\ pm = Num(4500) => aqi.v \in 7465..7466

\* C6 witness: PM2.5 45 has been converted, to 74.65
C6_Witness ==
    /\ aqi_record.done
    /\ aqi_record.pm25 = Num(4500)
    /\ aqi_record.aqi_estimated = Num(7465)

\* simple = 0.5*(F + 61 + (F-68)*1.2 + humidity*0.094) in units of 1e-4,
\* for F given as five times its value
ClaimedSimple(f5, h) == (2000 * f5 + 610000 + 2400 * (f5 - 340) + 940 * h) \div 2

\* Fahrenheit (1e-4) to Celsius (1e-4)
ClaimedCelsius(f) == ((f - 320000) * 5) \div 9

\* C7: the heat index of a numeric temperature and humidity is simple
\* (converted back to Celsius) exactly when simple < 80, and otherwise the
\* nine-coefficient Rothfusz polynomial in F and humidity (converted back).
C7_HeatIndexBranches ==
    (heat_record.done /\ heat_record.T2M.k = "num" /\ heat_record.RH2M.k = "num") =>
        LET f5 == 9 * heat_record.T2M.v + 160
            h == heat_record.RH2M.v
            simple == ClaimedSimple(f5, h)
        IN IF simple < 800000
           THEN /\ heat_record.heat_index_f = Num(simple)
                /\ heat_record.heat_index_c = Num(ClaimedCelsius(simple))
           ELSE /\ heat_record.heat_index_f = Num(rothfusz(f5, h))
                /\ heat_record.heat_index_c = Num(ClaimedCelsius(rothfusz(f5, h)))
                /\ heat_record.heat_index_f # Num(simple)

\* C7 witness: 25 C at 50 % has simple = 76.75 F, returned as 24.8611 C
C7_Witness ==
    /\ heat_record.done
    /\ heat_record.T2M = Num(25) /\ heat_record.RH2M = Num(50)
    /\ heat_record.heat_index_f = Num(767500)
    /\ heat_record.heat_index_c = Num(248611)

IsRow(t, h) == heat_record.done /\ heat_record.T2M = Num(t) /\ heat_record.RH2M = Num(h)

\* 35 C at 80 % is computed by the polynomial, about 133.8 F / 56.5 C
HotHumidRow ==
    IsRow(35, 80) =>
        /\ heat_record.heat_index_f = Num(rothfusz(9 * 35 + 160, 80))
        /\ heat_record.heat_index_f.v \in 1337500..1338499
        /\ heat_record.heat_index_c.v \in 564500..565499

\* C8 as stated: heat_index(30 C, 50 %) is computed by the simplified
\* branch, and heat_index(35 C, 80 %) by the full Rothfusz branch, about
\* 133.8 F / 56.5 C.
C8_Original ==
    /\ IsRow(30, 50) =>
          /\ ClaimedSimple(9 * 30 + 160, 50) < 800000
          /\ heat_record.heat_index_f = Num(ClaimedSimple(9 * 30 + 160, 50))
    /\ HotHumidRow

\* C8 amended: heat_index(30 C, 50 %) has simple = 86.65 F, which is not
\* below 80, so it is computed by the full Rothfusz branch, about 87.9 F /
\* 31.0 C; heat_index(35 C, 80 %) is computed by the full Rothfusz branch,
\* about 133.8 F / 56.5 C.
C8_BothRowsUseRothfusz ==
    /\ IsRow(30, 50) =>
          /\ ClaimedSimple(9 * 30 + 160, 50) = 866500
          /\ heat_record.heat_index_f = Num(rothfusz(9 * 30 + 160, 50))
          /\ heat_record.heat_index_f.v \in 878500..879499
          /\ heat_record.heat_index_c.v \in 310000..310999
    /\ HotHumidRow

\* C8 witness: the 30 C / 50 % row has been computed, as 87.8883 F
C8_Witness == IsRow(30, 50) /\ heat_record.heat_index_f = Num(878883)

Above(val, c) == val.k = "num" /\ val.v > c

ClaimedSoil(x) ==
    IF Above(x, 40) THEN 40 ELSE IF Above(x, 30) THEN 25 ELSE IF Above(x, 20) THEN 10 ELSE 0

ClaimedPrecip(x) ==
    IF x = None THEN 15
    ELSE IF Above(x, 5000) THEN 30 ELSE IF Above(x, 2500) THEN 20
    ELSE IF Above(x, 1000) THEN 10 ELSE 0

ClaimedNdwi(x) ==
    IF x = None THEN 15
    ELSE IF Above(x, 30) THEN 30 ELSE IF Above(x, 10) THEN 20
    ELSE IF Above(x, -10) THEN 10 ELSE 0

\* C9: the flood risk score is the sum of the soil moisture, precipitation
\* and NDWI components (15 each for an absent precipitation or NDWI) capped
\* at 100; it lies in [0,100]; (0.45, 60, 0.35) gives 100.
C9_FloodScoreComponents ==
    flood_record.done =>
        LET sum == ClaimedSoil(flood_record.soil_moisture)
                     + ClaimedPrecip(flood_record.precipitation)
                     + ClaimedNdwi(flood_record.ndwi)
        IN /\ flood_record.flood_risk_score = (IF sum > 100 THEN 100 ELSE sum)
           /\ flood_record.flood_risk_score \in 0..100
           /\ (flood_record.soil_moisture = Num(45) /\ flood_record.precipitation = Num(6000)
                 /\ flood_record.ndwi = Num(35)) => flood_record.flood_risk_score = 100

\* C9 witness: soil moisture 0.45 with no precipitation and no NDWI scores 70
C9_Witness ==
    /\ flood_record.done
    /\ flood_record.soil_moisture = Num(45)
    /\ flood_record.precipitation = None
    /\ flood_record.ndwi = None
    /\ flood_record.flood_risk_score = 70

\* C10: raising one numeric argument of calculate_flood_risk_score while the
\* other two are held fixed never lowers the score.
C10_FloodScoreMonotone ==
    flood_record.done =>
        LET s == flood_record.soil_moisture
            p == flood_record.precipitation
            n == flood_record.ndwi
        IN /\ \A s2 \in SoilValues : (s.k = "num" /\ s2.k = "num" /\ s2.v >= s.v) =>
                 calculate_flood_risk_score(s2, p, n) >= flood_record.flood_risk_score
           /\ \A p2 \in PrecipValues : (p.k = "num" /\ p2.k = "num" /\ p2.v >= p.v) =>
                 calculate_flood_risk_score(s, p2, n) >= flood_record.flood_risk_score
           /\ \A n2 \in NdwiValues : (n.k = "num" /\ n2.k = "num" /\ n2.v >= n.v) =>
                 calculate_flood_risk_score(s, p, n2) >= flood_record.flood_risk_score

\* C10 witness: a row scored 50 at NDWI 0.15 whose score rises to 60 when
\* NDWI is raised to 0.35
C10_Witness ==
    /\ flood_record.done
    /\ flood_record.soil_moisture = Num(25)
    /\ flood_record.precipitation = Num(3000)
    /\ flood_record.ndwi = Num(15)
    /\ flood_record.flood_risk_score = 50
    /\ calculate_flood_risk_score(Num(25), Num(3000), Num(35)) = 60

\* C11: for every engineered row, environmental_stress_index equals
\* 0.3*aqi_estimated + 0.3*flood_risk_score + 0.4*(the row's heat index),
\* the heat index being the row's heat_index_c (or its Fahrenheit twin).
C11_StressIndexWeighsHeat ==
    prep_pc \in {"engineered", "prepared"} =>
        \A i \in DOMAIN prepared_df.rows :
            LET row == prepared_df.rows[i].cells
            IN /\ "environmental_stress_index" \in DOMAIN row
               /\ \E heat \in {row["heat_index_c"].v, row["heat_index_f"].v} :
                     row["environmental_stress_index"].v =
                        3 * row["aqi_estimated"].v + 3 * row["flood_risk_score"].v
                          + 4 * heat

\* the artifact is loaded and the request carries exactly the schema's
\* features with values the scaler accepts
RowScorable ==
    /\ called_at = "done"
    /\ SchemaMatches(request)
    /\ ~TransformRaises(scalers["anomaly_scaler"],
                        prepare_features(metadata, label_encoders, request))

\* C12: whichever of isolation_forest, one_class_svm and dbscan was
\* persisted, inference reports is_anomaly = true exactly when that detector
\* classifies the row as isolated / outside the boundary / a noise point.
C12_IsAnomalyFollowsDetector ==
    (response.path # "none" /\ RowScorable) =>
        (response.is_anomaly
            <=> IsOutlier(models["anomaly_detector"].algorithm, decision_value))

\* C13: the anomaly_score of an inference result is the selected detector's
\* own decision function value (taken as a distance, its magnitude) when the
\* detector has one, and the neutral default 0.5 when it has none, as for
\* the clustering-based detector.
C13_ScoreFromDetectorOrDefault ==
    (response.path # "none" /\ RowScorable) =>
        IF HasDecisionFunction(models["anomaly_detector"].algorithm)
        THEN response.anomaly_score = Abs(decision_value)
        ELSE response.anomaly_score = 50

\* the bucket of a score given as a ratio of hundredths: High above 0.7,
\* Medium above 0.3 up to 0.7, Low otherwise
Bucket(score) ==
    IF score.num > 70 * score.den THEN "High"
    ELSE IF score.num > 30 * score.den THEN "Medium"
    ELSE "Low"

\* C14: severity is always the threshold bucket of the score it is reported
\* with: per row the score is anomaly_score, in the batch result it is the
\* reported overall mean score, for every batch; the empty batch reports
\* mean 0.0 and severity Low.
C14_SeverityIsBucketOfScore ==
    batch_result.returned =>
        /\ \A i \in 1..Len(batch_result.anomalies) :
              batch_result.anomalies[i].severity
                 = Bucket([num |-> batch_result.anomalies[i].anomaly_score, den |-> 1])
        /\ batch_result.severity = Bucket(batch_result.overall_score)
        /\ Len(batch_result.anomalies) = Len(data_list)
        /\ data_list = <<>> =>
              /\ batch_result.overall_score = [num |-> 0, den |-> 1]
              /\ batch_result.severity = "Low"

\* C14 witness: a batch of a High row (0.71) and a Low row (0.0) whose mean
\* 0.355 is reported as Medium
C14_Witness ==
    /\ batch_result.returned
    /\ Len(batch_result.anomalies) = 2
    /\ batch_result.anomalies[1].severity = "High"
    /\ batch_result.anomalies[2].severity = "Low"
    /\ batch_result.overall_score = [num |-> 71, den |-> 2]
    /\ batch_result.severity = "Medium"

\* C15: a detect_anomalies call made while no detector artifact is loaded
\* (never loaded, or the load failed) fails with ModelUnavailableError and
\* returns no AnomalyResult.
C15_UnloadedRaisesModelUnavailable ==
    (response.path # "none" /\ called_at \in {"start", "failed"}
        /\ "anomaly_detector" \notin DOMAIN models)
        => response.raised = "ModelUnavailableError"

\* C16: a detector that fails to fit is left out and the remaining ones
\* are evaluated, so a run ends on a fit failure only when no detector at
\* all was fitted, and then with a DataIntegrityError; a run that ended so
\* has persisted no artifact.
C16_FitFailurePolicy ==
    trainer.pc = "fit_failed" =>
        /\ DOMAIN predictions = {}
        /\ trainer.raised = "DataIntegrityError"
        /\ ~store_detector[model_dir].exists /\ ~store_scaler[model_dir].exists /\ ~store_metadata[model_dir].exists

\* C17: get_latest_data returns a record for every state of the master
\* dataset (absent, empty, or with a last row holding sentinels or NaN), and
\* no numeric value of that record is NaN or a sentinel.
C17_LatestDataAlwaysClean ==
    last_call = "get_latest_data" =>
        /\ Len(served) = 1
        /\ DOMAIN served[1] # {}
        /\ \A key \in DOMAIN served[1] :
              served[1][key].k # "nan" /\ ~IsSentinel(served[1][key])

\* C17 witness: the stored last row holds -999 in a column outside the
\* defaults table and get_latest_data has served 0.0 for it
C17_Witness ==
    /\ last_call = "get_latest_data"
    /\ Len(master_data.rows) > 0
    /\ "humidity_percent" \in DOMAIN master_data.rows[Len(master_data.rows)]
    /\ master_data.rows[Len(master_data.rows)]["humidity_percent"] = Num(-99900)
    /\ served[1]["humidity_percent"] = Num(0)

\* C18: estimate_pm25_from_aod returns aod * 25 * (1 + (humidity - 50) * 0.01)
\* clipped to [0, 500], so that 0.5 and 80 give 16.25, and the
\* pm25_estimated recorded in a row lies in [0, 500] on the placeholder, the
\* MODIS-only and the OMI-enhanced path.
C18_Pm25WithinRange ==
    /\ (pm25_call.done /\ pm25_call # NoPm25Call) =>
          LET raw == pm25_call.aod * 25000 * (50 + pm25_call.humidity)
          IN /\ pm25_call.pm25 = (IF raw < 0 THEN 0
                                  ELSE IF raw > 500000000 THEN 500000000 ELSE raw)
             /\ (pm25_call.aod = 5 /\ pm25_call.humidity = 80) => pm25_call.pm25 = 16250000
    /\ (aqi_row.done /\ aqi_row.path \in {"placeholder", "modis", "omi"}) =>
          /\ 0 <= aqi_row.pm25_estimated
          /\ aqi_row.pm25_estimated <= 5000

\* the OMI-enhanced path has recorded the row of its largest inputs, 125.1,
\* which is above every value of the MODIS-only path
C18_Witness ==
    /\ aqi_row.done
    /\ aqi_row.path = "omi"
    /\ aqi_row.aod = 30
    /\ aqi_row.humidity = 95
    /\ aqi_row.pm25_estimated = 1251

\* the name the threshold table gives an AQI held in hundredths
CategoryName(aqi) ==
    IF aqi <= 5000 THEN "Good"
    ELSE IF aqi <= 10000 THEN "Satisfactory"
    ELSE IF aqi <= 20000 THEN "Moderate"
    ELSE IF aqi <= 30000 THEN "Poor"
    ELSE IF aqi <= 40000 THEN "Very Poor"
    ELSE "Severe"

\* C20: in every row written by the placeholder, the MODIS-only or the
\* MODIS+OMI path, aqi_category is the one of the six names that the
\* thresholds 50, 100, 200, 300, 400 choose for the row's AQI, and aqi_color
\* is a colour of that category, never the fallback "gray".
C20_CategoryAndColourOfRow ==
    (aqi_row.done /\ aqi_row.path \in {"placeholder", "modis", "omi"}) =>
        LET name == CategoryName(aqi_row.aqi_estimated)
        IN /\ aqi_row.aqi_category = Str(name)
           /\ aqi_row.aqi_color # "gray"
           /\ aqi_row.aqi_color \in {colors[name], get_aqi_category(aqi_row.aqi_estimated).color}

\* C19: in every row written by the demonstration, the SMAP-only or the
\* SMAP+Landsat path, risk_category is the class the threshold table gives
\* the recorded flood_risk_score: Low below 20, Moderate below 40, High below
\* 60, Very High below 80, Extreme from 80 on, so 100 is Extreme Risk.
C19_CategoryOfRecordedScore ==
    (flood_row.done /\ flood_row.path \in {"demonstration", "smap", "landsat"}) =>
        LET score == flood_row.flood_risk_score
        IN /\ score < 20 => flood_row.risk_category = "Low Risk"
           /\ (20 <= score /\ score < 40) => flood_row.risk_category = "Moderate Risk"
           /\ (40 <= score /\ score < 60) => flood_row.risk_category = "High Risk"
           /\ (60 <= score /\ score < 80) => flood_row.risk_category = "Very High Risk"
           /\ score >= 80 => flood_row.risk_category = "Extreme Risk"
           /\ score = 100 => flood_row.risk_category = "Extreme Risk"

\* the SMAP+Landsat path has written a row whose base score 75 is enhanced
\* to 82.5, recorded as 82 and classed Extreme Risk
C19_Witness ==
    /\ flood_row.done
    /\ flood_row.path = "landsat"
    /\ calculate_flood_risk_score(flood_row.soil_moisture, flood_row.precipitation,
                                  flood_row.ndwi) = 75
    /\ flood_row.flood_risk_score = 82
    /\ flood_row.risk_category = "Extreme Risk"

Positives == {r \in DOMAIN labels : labels[r] = 1}

\* the number of cells of row r that hold an injected outlier
ModifiedIn(r) ==
    Cardinality({c \in DOMAIN features_with_anomalies[r] :
                    features_with_anomalies[r][c].outlier})

\* C25: create_synthetic_anomalies selects exactly floor(0.1 * n) distinct
\* rows of the n-row matrix, labels exactly those rows 1 and all others 0,
\* changes values only in selected rows of the working copy, and leaves
\* features_df, from which mean and std are taken, unchanged.
C25_InjectionFrame ==
    inj.pc \in {"injected", "crashed"} =>
        /\ Cardinality(Positives) = inj.n_samples \div 10
        /\ DOMAIN labels = 1..inj.n_samples
        /\ \A r \in DOMAIN labels : labels[r] \in {0, 1}
        /\ \A r \in DOMAIN features_with_anomalies :
              ModifiedIn(r) > 0 => r \in Positives
        /\ inj.pc = "injected" => \A r \in Positives : ModifiedIn(r) > 0
        /\ features_df = Original(inj.n_samples, inj.n_features)

\* twenty rows: two distinct rows are labelled and modified, the other
\* eighteen are not
C25_Witness ==
    /\ inj.pc = "injected"
    /\ inj.n_samples = 20
    /\ Cardinality(Positives) = 2
    /\ \A r \in Positives : ModifiedIn(r) = 1
    /\ features_with_anomalies # features_df

\* C26: for every matrix with at least one feature column the injection
\* completes without raising and overwrites between 1 and 3 distinct columns
\* of every selected row.
C26_InjectionCompletes ==
    inj.pc \in {"injected", "crashed"} =>
        /\ inj.raised = "none"
        /\ \A r \in Positives :
              /\ 1 <= ModifiedIn(r)
              /\ ModifiedIn(r) <= Min(3, inj.n_features)

\* C22: a call of detect_anomalies or detect_comprehensive_anomalies, on
\* its success path or on an error path, leaves the loaded detector, the
\* scaler, the metadata and the label encoders as they were and does not
\* modify the rows it was given.  (Every step that is not a step of
\* load_all_models is such a call.)
C22_InferenceIsReadOnly ==
    [][loader_pc' = loader_pc =>
          /\ models' = models
          /\ scalers' = scalers
          /\ metadata' = metadata
          /\ label_encoders' = label_encoders
          /\ request' = request
          /\ data_list' = data_list]_vars

\* a batch of two rows has been scored by a loaded detector whose schema
\* names a column the rows lack: one row on the success path, one with NaN
\* on the error path
C22_Witness ==
    /\ loader_pc = "done"
    /\ batch_result.returned
    /\ Len(data_list) = 2
    /\ batch_result.anomalies[1].path = "try"
    /\ batch_result.anomalies[2].path # "try"
    /\ data_list[2].data["T2M"] = NaN
    /\ \E i \in DOMAIN metadata["anomaly_detection"].features :
          metadata["anomaly_detection"].features[i] \notin DOMAIN data_list[1].data

\* C23: the artifact a training run has persisted holds the fitted scaler,
\* the fitted selected detector, the selected algorithm id, the ordered
\* feature-column list, the contamination fraction and the evaluation
\* metrics (accuracy, precision, recall, F1) of that run.
C23_ArtifactContents ==
    trainer.pc = "done" =>
        /\ store_scaler[model_dir].exists /\ store_detector[model_dir].exists /\ store_metadata[model_dir].exists
        /\ store_scaler[model_dir].obj = ScalerOf(trainer.run, trainer.n_features)
        /\ store_detector[model_dir].obj = DetectorOf(trainer.run, best_model_name)
        /\ store_metadata[model_dir].obj.best_algorithm = best_model_name
        /\ store_metadata[model_dir].obj.features = SchemaOf(trainer.n_features)
        /\ store_metadata[model_dir].obj.anomaly_threshold = 10
        /\ {"accuracy", "precision", "recall", "f1_score"} \subseteq DOMAIN store_metadata[model_dir].obj

\* C24: the steps of a training run occur in the order load, inject, fit,
\* evaluate and select, persist: injection follows a successful load, a
\* detector is fitted only after injection, the best model is selected only
\* when all three detectors have been fitted, the artifact is written only
\* after selection and holds the selected model, and a run whose load
\* failed takes no further step and has written nothing.
C24_PipelineOrder ==
    [][ /\ trainer.pc # "load_failed"
        /\ trainer'.pc = "load_failed" =>
               /\ trainer.pc = "start"
               /\ UNCHANGED <<predictions, results, best_model_name, storeVars>>
        /\ trainer'.pc \in {"injected", "crashed"} => trainer.pc = "loaded"
        /\ predictions' # predictions => trainer.pc = "injected"
        /\ (best_model_name' # best_model_name \/ results' # results) =>
               /\ trainer.pc = "trained"
               /\ DOMAIN predictions = Range(Algorithms)
               /\ DOMAIN results' = Range(Algorithms)
               /\ best_model_name' \in Range(Algorithms)
        /\ storeVars' # storeVars =>
               /\ trainer.pc = "analyzed" /\ trainer'.pc = "done"
               /\ best_model_name \in Range(Algorithms)
               /\ results # EmptyDict
               /\ store_detector'[model_dir].obj = DetectorOf(trainer.run, best_model_name)
      ]_vars

C24_Witness ==
    /\ trainer.pc = "done"
    /\ store_detector[model_dir].exists /\ store_scaler[model_dir].exists /\ store_metadata[model_dir].exists
    /\ DOMAIN predictions = Range(Algorithms)
    /\ best_model_name \in Range(Algorithms)

\* the numeric columns other than date whose non-missing coverage is at
\* least 70 % of the rows, in column order
AtLeast70(df) ==
    LET Kept(col) == /\ col.name # "date"
                     /\ col.dtype \in {"int64", "float64"}
                     /\ 10 * notna_sum(col.cells) >= 7 * df.n
        cols == SelectSeq(df.cols, Kept)
    IN [c \in DOMAIN cols |-> cols[c].name]

\* C27: load_data keeps as features exactly the numeric columns other than
\* date whose non-missing coverage is at least 70 % of the rows (a column
\* with exactly 70 % is kept), and after loading no kept column holds a
\* missing value.
C27_FeaturesAtLeast70 ==
    load_pc = "loaded" =>
        /\ feature_cols = AtLeast70(master_df)
        /\ \A c \in DOMAIN filled_df : \A i \in DOMAIN filled_df[c] :
               filled_df[c][i].k # "nan"

\* C28: calculate_aqi_from_pm25 is non-decreasing over 0 <= pm25 <= 500,
\* values between two adjacent breakpoint bands included: the AQI of a
\* value is not below the AQI of the value one grid step under it, and a
\* value that lies between two bands gets an AQI between the upper AQI of
\* the lower band and the lower AQI of the upper band.
C28_AqiMonotone ==
    LET pm25 == aqi_record.pm25
        aqi == aqi_record.aqi_estimated
    IN (aqi_record.done /\ pm25.k = "num" /\ pm25.v >= 0 /\ pm25.v <= 50000) =>
          /\ pm25.v >= 10 => calculate_aqi_from_pm25(Num(pm25.v - 10)).v <= aqi.v
          /\ \A b \in 1..(Len(breakpoints) - 1) :
                 (100 * breakpoints[b][2] < pm25.v /\ pm25.v < 100 * breakpoints[b + 1][1]) =>
                     /\ 100 * breakpoints[b][4] <= aqi.v
                     /\ aqi.v <= 100 * breakpoints[b + 1][3]

\* C29: the two backend heat-index functions agree with the processing
\* script: on every temperature and humidity they return the Celsius value
\* of the script's calculate_heat_index on the Fahrenheit temperature, and
\* they take the simplified or the Rothfusz branch where the script does.
C29_BackendAgreesWithScript ==
    backend_heat.done =>
        /\ backend_heat.fetcher = backend_heat.script
        /\ backend_heat.loader = backend_heat.script
        /\ BackendBranch(backend_heat.temp_c)
              = ScriptBranch(backend_heat.temp_c, backend_heat.humidity)

\* C30: in every result detect_anomalies returns, severity High implies
\* is_anomaly: a row the detector classifies as normal is never reported
\* with severity High.
C30_HighImpliesAnomaly ==
    (response.path \in {"try", "except"} /\ response.severity = "High") => response.is_anomaly

====
